---- MODULE Spec2Model ----
(***************************************************************************)
(* funcflow: call-graph construction (graph/builder.ts), impact analysis   *)
(* (analyzer/impact-analyzer.ts) and the JSON exporter's metrics           *)
(* (visualizer/json.ts).                                                   *)
(*                                                                         *)
(* The TypeScript front end (AST, type checker) is represented by what the *)
(* analysis reads from it: the function definitions of the project in      *)
(* source order, each with its name, file, line, kind, the number of       *)
(* branching constructs in its body and the ordered list of the call       *)
(* sites in its body (findCallsInFunction), each call site with the callee *)
(* name, the receiver text of the call expression and its location.        *)
(***************************************************************************)
EXTENDS Integers, Sequences, FiniteSets, TLC

VARIABLES program, query, result

vars == <<program, query, result>>

----------------------------------------------------------------------------
(* Bounds of the model *)

\* number of function definitions of a call-chain project
NumFuncs == 6
\* largest number of callers, and of callees, of the hub of a star project
MaxFan == 5
\* largest number of branching constructs in the hub of a star project
MaxBranches == 14
\* largest caller, callee and affected count handed to a scoring function
MaxCount == 12
\* largest number of cycles handed to calculateRiskScore
MaxCycles == 10
\* largest cyclomatic complexity handed to a scoring function
MaxComplexity == 16
\* number of function definitions of a densely connected project
DenseFuncs == 4
\* largest caller count, and callee count, handed to generateSuggestions
MaxSuggested == 21

----------------------------------------------------------------------------
(* Generic helpers *)

Min(a, b) == IF a < b THEN a ELSE b

\* Array.prototype.includes
Includes(seq, x) == \E i \in 1..Len(seq) : seq[i] = x

\* the set of elements of an array
Range(seq) == {seq[i] : i \in 1..Len(seq)}

\* Map.prototype.set / has on a map represented as a function
MapSet(m, k, v) == [x \in (DOMAIN m) \cup {k} |-> IF x = k THEN v ELSE m[x]]

EmptyMap == [x \in {} |-> x]

\* [...new Set(arr)]: the first occurrence of every element, in order
Dedupe(seq) ==
    LET idx == SelectSeq([i \in 1..Len(seq) |-> i],
                         LAMBDA i : \A j \in 1..(i - 1) : seq[j] # seq[i])
    IN  [k \in 1..Len(idx) |-> seq[idx[k]]]

----------------------------------------------------------------------------
(* The analysed projects *)

SourceFile == "index.ts"

\* a call written as name(), and the same call written on the line of the
\* call before it
Direct(name) == [calleeName |-> name, receiver |-> "", inline |-> FALSE]

Inline(name) == [calleeName |-> name, receiver |-> "", inline |-> TRUE]

\* the call sites of a body: the calls in source order, each on a line of
\* its own after the line of the definition unless it is written on the
\* line of the call before it, then some columns further right
Body(defLine, raw) ==
    LET starts(k) == k = 1 \/ ~raw[k].inline
        lineStart(k) == CHOOSE j \in 1..k :
                           /\ starts(j)
                           /\ \A i \in (j + 1)..k : ~starts(i)
    IN  [k \in 1..Len(raw) |->
            [calleeName |-> raw[k].calleeName,
             receiver |-> raw[k].receiver,
             location |->
                [file |-> SourceFile,
                 line |-> defLine
                            + Cardinality({j \in 1..k : starts(j)}),
                 column |-> 3 + 8 * (k - lineStart(k))]]]

Definition(name, defLine, branches, raw) ==
    [name |-> name,
     filePath |-> SourceFile,
     line |-> defLine,
     column |-> 1,
     kind |-> "function",
     branches |-> branches,
     calls |-> Body(defLine, raw)]

(* Call-chain projects: f1 .. fN, where f(i) calls f(i+1) for i <= chain,  *)
(* plus at most one further call site anywhere.                            *)

FuncNames == <<"f1", "f2", "f3", "f4", "f5", "f6", "f7", "f8">>

Funcs == {FuncNames[i] : i \in 1..NumFuncs}

\* what a call expression can name: a function of the project, a name
\* without any definition, a global built-in, a method of a built-in object
CallTargets ==
    {Direct(f) : f \in Funcs}
        \cup {Direct("helper"), Direct("parseInt"),
              [calleeName |-> "floor", receiver |-> "Math", inline |-> FALSE]}

\* a further call site: in which function, to what, and whether it is
\* written before the function's call along the chain
ExtraCalls == [caller : Funcs, target : CallTargets, first : BOOLEAN]

\* no further call site, or one
Extras == {<<>>} \cup {<<e>> : e \in ExtraCalls}

ExtrasOf(f, extras, first) ==
    LET mine == SelectSeq(extras, LAMBDA e : e.caller = f /\ e.first = first)
    IN  [k \in 1..Len(mine) |-> mine[k].target]

ChainProject(chain, extras) ==
    [i \in 1..NumFuncs |->
        Definition(FuncNames[i], 3 * i, 0,
            ExtrasOf(FuncNames[i], extras, TRUE)
                \o (IF i <= chain THEN <<Direct(FuncNames[i + 1])>> ELSE <<>>)
                \o ExtrasOf(FuncNames[i], extras, FALSE))]

ChainProjects ==
    {ChainProject(chain, extras) :
        chain \in 0..(NumFuncs - 1), extras \in Extras}

(* Star projects: in callers functions c1 .. c(in) each call the hub, and  *)
(* the hub calls out functions d1 .. d(out); the hub has the given number  *)
(* of branching constructs.                                                *)

CallerNames == <<"c1", "c2", "c3", "c4", "c5", "c6", "c7", "c8">>

CalleeNames == <<"d1", "d2", "d3", "d4", "d5", "d6", "d7", "d8">>

HubName == "hub"

StarProject(in, out, branches) ==
    [i \in 1..in |-> Definition(CallerNames[i], 2 * i, 0, <<Direct(HubName)>>)]
        \o <<Definition(HubName, 2 * (in + 1), branches,
                        [k \in 1..out |-> Direct(CalleeNames[k])])>>
        \o [k \in 1..out |->
               Definition(CalleeNames[k], 2 * (in + 1) + out + k, 0, <<>>)]

\* straight-line hubs and hubs at the edges of the complexity bands
BranchCounts == {0, 4, 9, MaxBranches}

StarProjects ==
    {StarProject(in, out, branches) :
        in \in 0..MaxFan, out \in 0..MaxFan, branches \in BranchCounts}

Projects == ChainProjects \cup StarProjects

(* Densely connected projects: f1 .. fn, where f(i) calls f(i+1) for       *)
(* i < n, plus at most two further call sites between any two of them,    *)
(* each written on a line before the function's call along the chain, on  *)
(* a line after it, or after it on the same line.                         *)

Placements == {"before", "after", "sameLine"}

DenseCalls(n) == [caller : 1..n, target : 1..n, place : Placements]

DenseExtras(n) ==
    {<<>>} \cup {<<e>> : e \in DenseCalls(n)}
        \cup {<<e1, e2>> : e1 \in DenseCalls(n), e2 \in DenseCalls(n)}

\* the further call sites of function i written before its chain call
\* (before = TRUE) or after it
DenseExtrasOf(i, extras, before) ==
    LET mine == SelectSeq(extras,
                    LAMBDA e : e.caller = i /\ (e.place = "before") = before)
    IN  [k \in 1..Len(mine) |->
            IF mine[k].place = "sameLine"
            THEN Inline(FuncNames[mine[k].target])
            ELSE Direct(FuncNames[mine[k].target])]

DenseProject(n, extras) ==
    [i \in 1..n |->
        Definition(FuncNames[i], 4 * i, 0,
            DenseExtrasOf(i, extras, TRUE)
                \o (IF i < n THEN <<Direct(FuncNames[i + 1])>> ELSE <<>>)
                \o DenseExtrasOf(i, extras, FALSE))]

DenseProjects ==
    UNION {{DenseProject(n, extras) : extras \in DenseExtras(n)} :
              n \in 1..DenseFuncs}

(* Projects with a name defined twice: f1, f2 and f3 with at most one call *)
(* each, and a second definition of f1 (a method of another class, say)   *)
(* with a body and a branch count of its own, found after the first f1.   *)

DupNames == <<"f1", "f2", "f3">>

DupBodies == {<<>>} \cup {<<Direct(DupNames[i])>> : i \in 1..Len(DupNames)}

\* the branching constructs of the second definition of f1
SecondBranches == 4

\* bodies[i] is the body of DupNames[i] and second that of the second f1,
\* which is the definition found in place number `place`
DupProject(bodies, second, place) ==
    LET names == SubSeq(DupNames, 1, place - 1) \o <<"f1">>
                     \o SubSeq(DupNames, place, Len(DupNames))
        body(k) == IF k = place THEN second
                   ELSE IF k < place THEN bodies[k] ELSE bodies[k - 1]
    IN  [k \in 1..Len(names) |->
            Definition(names[k], 3 * k,
                       IF k = place THEN SecondBranches ELSE 0, body(k))]

DupProjects ==
    {DupProject(bodies, second, place) :
        bodies \in [1..Len(DupNames) -> DupBodies], second \in DupBodies,
        place \in 2..(Len(DupNames) + 1)}

\* the names that have a definition
DefinedNames(prog) == {prog[i].name : i \in 1..Len(prog)}

\* the names a query can ask for: the defined ones and one that is not
QueryNames(prog) == DefinedNames(prog) \cup {"helper"}

----------------------------------------------------------------------------
(* analyzer/function-finder.ts, analyzer/call-analyzer.ts *)

\* findFunction: every definition of the name, in source order
findFunction(prog, functionName) ==
    SelectSeq(prog, LAMBDA d : d.name = functionName)

\* findCallsInFunction: the call expressions inside the definition
findCallsInFunction(functionNode) == functionNode.calls

----------------------------------------------------------------------------
(* graph/builder.ts *)

globalBuiltIns ==
    {"setTimeout", "setInterval", "clearTimeout", "clearInterval",
     "setImmediate", "clearImmediate", "require", "eval", "parseInt",
     "parseFloat", "isNaN", "isFinite", "encodeURI", "decodeURI",
     "encodeURIComponent", "decodeURIComponent"}

builtInReceivers ==
    {"console", "Math", "JSON", "Object", "Array", "String", "Number",
     "Boolean", "Date", "Promise", "Reflect", "Proxy", "Symbol", "BigInt",
     "Map", "Set", "WeakMap", "WeakSet", "RegExp", "Error", "process"}

\* the full expression text is receiver.calleeName, or calleeName alone
isBuiltInFunction(name, receiver) ==
    name \in globalBuiltIns \/ receiver \in builtInReceivers

RECURSIVE buildCallees(_, _, _, _, _, _)
RECURSIVE buildCalleesLoop(_, _, _, _, _, _, _)

\* the body of `for (const call of calls)` from call number k on; acc.g
\* is the traversal state shared by all invocations (nodes, edges, visited,
\* the scans made and the count of invocations made), acc.directCallees the local array
buildCalleesLoop(prog, functionName, calls, k, currentDepth, acc, maxDepth) ==
    IF k > Len(calls) THEN acc
    ELSE
    LET call == calls[k]
        calleeName == call.calleeName
        g == acc.g
    IN  IF isBuiltInFunction(calleeName, call.receiver)
        THEN buildCalleesLoop(prog, functionName, calls, k + 1,
                              currentDepth, acc, maxDepth)
        ELSE
        LET edges1 == Append(g.edges,
                        [from |-> functionName, to |-> calleeName,
                         location |-> [file |-> call.location.file,
                                       line |-> call.location.line]])
            direct1 == IF currentDepth = 0
                       THEN Append(acc.directCallees, calleeName)
                       ELSE acc.directCallees
            nodes1 == IF calleeName \notin DOMAIN g.nodes
                      THEN MapSet(g.nodes, calleeName,
                             [name |-> calleeName,
                              location |-> call.location,
                              kind |-> "function"])
                      ELSE g.nodes
            calleeLocations == findFunction(prog, calleeName)
            g1 == [g EXCEPT !.edges = edges1, !.nodes = nodes1]
            g2 == IF Len(calleeLocations) > 0
                  THEN buildCallees(prog, calleeName, calleeLocations[1],
                         currentDepth + 1,
                         [g1 EXCEPT !.nodes =
                            MapSet(nodes1, calleeName,
                              [name |-> calleeName,
                               location |->
                                 [file |-> calleeLocations[1].filePath,
                                  line |-> calleeLocations[1].line,
                                  column |-> calleeLocations[1].column],
                               kind |-> calleeLocations[1].kind])],
                         maxDepth).g
                  ELSE g1
        IN  buildCalleesLoop(prog, functionName, calls, k + 1, currentDepth,
                             [g |-> g2, directCallees |-> direct1], maxDepth)

\* buildCallees without the visited guard
buildCallees_NoVisitedGuard(prog, functionName, functionNode, currentDepth, g, maxDepth) ==
    LET entered == [g EXCEPT !.invocations = @ + 1]
    IN  IF currentDepth >= maxDepth
        THEN [g |-> entered, directCallees |-> <<>>]
        ELSE buildCalleesLoop(prog, functionName,
                 findCallsInFunction(functionNode), 1, currentDepth,
                 [g |-> [entered EXCEPT !.visited = @ \cup {functionName},
                                     !.scanned = @ \cup {<<functionName, currentDepth>>}],
                  directCallees |-> <<>>],
                 maxDepth)

\* buildCallees with the depth guard off by one
buildCallees_DepthOffByOne(prog, functionName, functionNode, currentDepth, g, maxDepth) ==
    LET entered == [g EXCEPT !.invocations = @ + 1]
    IN  IF currentDepth > maxDepth
        THEN [g |-> entered, directCallees |-> <<>>]
        ELSE IF functionName \in g.visited
        THEN [g |-> entered, directCallees |-> <<>>]
        ELSE buildCalleesLoop(prog, functionName,
                 findCallsInFunction(functionNode), 1, currentDepth,
                 [g |-> [entered EXCEPT !.visited = @ \cup {functionName},
                                     !.scanned = @ \cup {<<functionName, currentDepth>>}],
                  directCallees |-> <<>>],
                 maxDepth)

buildCallees(prog, functionName, functionNode, currentDepth, g, maxDepth) ==
    LET entered == [g EXCEPT !.invocations = @ + 1]
    IN  IF currentDepth >= maxDepth
        THEN [g |-> entered, directCallees |-> <<>>]
        ELSE IF functionName \in g.visited
        THEN [g |-> entered, directCallees |-> <<>>]
        ELSE buildCalleesLoop(prog, functionName,
                 findCallsInFunction(functionNode), 1, currentDepth,
                 [g |-> [entered EXCEPT !.visited = @ \cup {functionName},
                                     !.scanned = @ \cup {<<functionName, currentDepth>>}],
                  directCallees |-> <<>>],
                 maxDepth)

\* the Map filled by collectFunctions, as its entries in insertion order:
\* a name keeps the place of its first definition and the value of its last
CollectedMap(prog) ==
    LET firsts == SelectSeq([i \in 1..Len(prog) |-> i],
                     LAMBDA i : \A j \in 1..(i - 1) : prog[j].name # prog[i].name)
        last(name) == CHOOSE j \in 1..Len(prog) :
                         /\ prog[j].name = name
                         /\ \A k \in (j + 1)..Len(prog) : prog[k].name # name
    IN  [k \in 1..Len(firsts) |-> prog[last(prog[firsts[k]].name)]]

\* collectFunctions (builder): every function with the callee names of all
\* its call sites (built-ins and repeats included)
builderCallMap(prog) ==
    LET collected == CollectedMap(prog)
    IN  [i \in 1..Len(collected) |->
            [name |-> collected[i].name,
             info |-> [name |-> collected[i].name,
                       location |-> [file |-> collected[i].filePath,
                                     line |-> collected[i].line,
                                     column |-> collected[i].column],
                       kind |-> collected[i].kind],
             calls |-> [k \in 1..Len(collected[i].calls) |->
                           collected[i].calls[k].calleeName]]]

RECURSIVE findCallersRecursive(_, _, _, _, _, _, _)
RECURSIVE findCallersLoop(_, _, _, _, _, _, _, _)

\* the loop of findCallersRecursive pushing an edge for every caller found,
\* whether or not the pair is already in the list
findCallersLoop_NoEdgeTest(callMap, targetFunctionName, funcName, k, currentDepth, isDirectCaller, c, maxDepth) ==
    IF k > Len(callMap) THEN c
    ELSE
    LET callerName == callMap[k].name
        data == callMap[k]
    IN  IF Includes(data.calls, funcName) /\ callerName # funcName
        THEN
        LET direct1 == IF isDirectCaller /\ funcName = targetFunctionName
                       THEN Append(c.directCallers, callerName)
                       ELSE c.directCallers
            nodes1 == IF callerName \notin DOMAIN c.nodes
                      THEN MapSet(c.nodes, callerName,
                             [name |-> callerName,
                              location |-> data.info.location,
                              kind |-> data.info.kind])
                      ELSE c.nodes
            edgeExists == \E i \in 1..Len(c.edges) :
                             c.edges[i].from = callerName
                                 /\ c.edges[i].to = funcName
            edges1 == IF TRUE
                      THEN Append(c.edges,
                             [from |-> callerName, to |-> funcName,
                              location |->
                                 [file |-> data.info.location.file,
                                  line |-> data.info.location.line]])
                      ELSE c.edges
            c1 == [c EXCEPT !.directCallers = direct1, !.nodes = nodes1,
                            !.edges = edges1]
            c2 == findCallersRecursive(callMap, targetFunctionName,
                     callerName, currentDepth + 1, FALSE, c1, maxDepth)
        IN  findCallersLoop(callMap, targetFunctionName, funcName, k + 1,
                            currentDepth, isDirectCaller, c2, maxDepth)
        ELSE findCallersLoop(callMap, targetFunctionName, funcName, k + 1,
                             currentDepth, isDirectCaller, c, maxDepth)

\* the body of `for (const [callerName, data] of functionCallMap)` from
\* entry number k on; c holds nodes, edges, visited, directCallers and the
\* count of invocations made
findCallersLoop(callMap, targetFunctionName, funcName, k, currentDepth, isDirectCaller, c, maxDepth) ==
    IF k > Len(callMap) THEN c
    ELSE
    LET callerName == callMap[k].name
        data == callMap[k]
    IN  IF Includes(data.calls, funcName) /\ callerName # funcName
        THEN
        LET direct1 == IF isDirectCaller /\ funcName = targetFunctionName
                       THEN Append(c.directCallers, callerName)
                       ELSE c.directCallers
            nodes1 == IF callerName \notin DOMAIN c.nodes
                      THEN MapSet(c.nodes, callerName,
                             [name |-> callerName,
                              location |-> data.info.location,
                              kind |-> data.info.kind])
                      ELSE c.nodes
            edgeExists == \E i \in 1..Len(c.edges) :
                             c.edges[i].from = callerName
                                 /\ c.edges[i].to = funcName
            edges1 == IF ~edgeExists
                      THEN Append(c.edges,
                             [from |-> callerName, to |-> funcName,
                              location |->
                                 [file |-> data.info.location.file,
                                  line |-> data.info.location.line]])
                      ELSE c.edges
            c1 == [c EXCEPT !.directCallers = direct1, !.nodes = nodes1,
                            !.edges = edges1]
            c2 == findCallersRecursive(callMap, targetFunctionName,
                     callerName, currentDepth + 1, FALSE, c1, maxDepth)
        IN  findCallersLoop(callMap, targetFunctionName, funcName, k + 1,
                            currentDepth, isDirectCaller, c2, maxDepth)
        ELSE findCallersLoop(callMap, targetFunctionName, funcName, k + 1,
                             currentDepth, isDirectCaller, c, maxDepth)

findCallersRecursive(callMap, targetFunctionName, funcName, currentDepth, isDirectCaller, c, maxDepth) ==
    LET entered == [c EXCEPT !.invocations = @ + 1]
    IN  IF currentDepth >= maxDepth THEN entered
        ELSE IF funcName \in c.visited THEN entered
        ELSE findCallersLoop(callMap, targetFunctionName, funcName, 1,
                 currentDepth, isDirectCaller,
                 [entered EXCEPT !.visited = @ \cup {funcName}], maxDepth)

\* findCallers pushing to an edge list of its own
findCallers_OwnEdgeList(prog, targetFunctionName, maxDepth, nodes, edges) ==
    findCallersRecursive(builderCallMap(prog), targetFunctionName,
        targetFunctionName, 0, TRUE,
        [nodes |-> nodes, edges |-> <<>>, visited |-> {},
         directCallers |-> <<>>, invocations |-> 0],
        maxDepth)

\* findCallers: its own visited set, the graph's nodes and edges
findCallers(prog, targetFunctionName, maxDepth, nodes, edges) ==
    findCallersRecursive(builderCallMap(prog), targetFunctionName,
        targetFunctionName, 0, TRUE,
        [nodes |-> nodes, edges |-> edges, visited |-> {},
         directCallers |-> <<>>, invocations |-> 0],
        maxDepth)

\* buildCallGraph starting from an empty node map
buildCallGraph_NoTargetNode(prog, targetFunction, depth, direction) ==
    LET targetNode == [name |-> targetFunction.name,
                       location |-> [file |-> targetFunction.filePath,
                                     line |-> targetFunction.line,
                                     column |-> targetFunction.column],
                       kind |-> targetFunction.kind]
        nodes0 == EmptyMap
        down == IF direction \in {"callees", "both"}
                THEN buildCallees(prog, targetFunction.name, targetFunction, 0,
                        [nodes |-> nodes0, edges |-> <<>>, visited |-> {},
                         scanned |-> {}, invocations |-> 0],
                        depth)
                ELSE [g |-> [nodes |-> nodes0, edges |-> <<>>,
                             visited |-> {}, scanned |-> {},
                             invocations |-> 0],
                      directCallees |-> <<>>]
        up == IF direction \in {"callers", "both"}
              THEN findCallers(prog, targetFunction.name, depth,
                               down.g.nodes, down.g.edges)
              ELSE [nodes |-> down.g.nodes, edges |-> down.g.edges,
                    visited |-> {}, directCallers |-> <<>>,
                    invocations |-> 0]
    IN  [targetNode |-> targetNode,
         nodes |-> up.nodes,
         edges |-> up.edges,
         callers |-> up.directCallers,
         callees |-> down.directCallees,
         work |-> [buildCallees |-> down.g.invocations,
                   scanned |-> down.g.scanned,
                   findCallersRecursive |-> up.invocations]]

\* buildCallGraph; `work` counts the invocations of the two traversals and
\* holds the pairs <<function, depth>> whose call sites buildCallees scanned
buildCallGraph(prog, targetFunction, depth, direction) ==
    LET targetNode == [name |-> targetFunction.name,
                       location |-> [file |-> targetFunction.filePath,
                                     line |-> targetFunction.line,
                                     column |-> targetFunction.column],
                       kind |-> targetFunction.kind]
        nodes0 == MapSet(EmptyMap, targetFunction.name, targetNode)
        down == IF direction \in {"callees", "both"}
                THEN buildCallees(prog, targetFunction.name, targetFunction, 0,
                        [nodes |-> nodes0, edges |-> <<>>, visited |-> {},
                         scanned |-> {}, invocations |-> 0],
                        depth)
                ELSE [g |-> [nodes |-> nodes0, edges |-> <<>>,
                             visited |-> {}, scanned |-> {},
                             invocations |-> 0],
                      directCallees |-> <<>>]
        up == IF direction \in {"callers", "both"}
              THEN findCallers(prog, targetFunction.name, depth,
                               down.g.nodes, down.g.edges)
              ELSE [nodes |-> down.g.nodes, edges |-> down.g.edges,
                    visited |-> {}, directCallers |-> <<>>,
                    invocations |-> 0]
    IN  [targetNode |-> targetNode,
         nodes |-> up.nodes,
         edges |-> up.edges,
         callers |-> up.directCallers,
         callees |-> down.directCallees,
         work |-> [buildCallees |-> down.g.invocations,
                   scanned |-> down.g.scanned,
                   findCallersRecursive |-> up.invocations]]

----------------------------------------------------------------------------
(* analyzer/impact-analyzer.ts *)

builtIns ==
    {"console", "log", "error", "warn", "info", "debug", "setTimeout",
     "setInterval", "clearTimeout", "clearInterval", "parseInt",
     "parseFloat", "JSON", "parse", "stringify", "require", "map", "filter",
     "reduce", "forEach", "push", "pop", "shift", "unshift", "slice",
     "splice", "join", "split", "toString", "valueOf"}

isBuiltIn(name) == name \in builtIns

\* Map.get(name) || [] on a map from names to arrays
GetOrEmpty(m, name) == IF name \in DOMAIN m THEN m[name] ELSE <<>>

\* collectFunctions (impact analyzer): the entries of functionCallMap in
\* insertion order, each with the distinct callee names that are not built in
impactCallMap(prog) ==
    LET collected == CollectedMap(prog)
    IN  [i \in 1..Len(collected) |->
            [name |-> collected[i].name,
             info |-> [name |-> collected[i].name,
                       location |-> [file |-> collected[i].filePath,
                                     line |-> collected[i].line,
                                     column |-> collected[i].column],
                       kind |-> collected[i].kind],
             callees |-> Dedupe(SelectSeq(
                            [k \in 1..Len(collected[i].calls) |->
                                collected[i].calls[k].calleeName],
                            LAMBDA n : ~isBuiltIn(n)))]]

\* functionCallMap.get(name)?.callees || []
CalleesIn(functionCallMap, name) ==
    LET hits == SelectSeq(functionCallMap, LAMBDA e : e.name = name)
    IN  IF Len(hits) = 0 THEN <<>> ELSE hits[1].callees

\* the reverse map: for every callee name the functions that call it, in
\* the order of functionCallMap (keys are unique and callees distinct, so
\* the includes() guard never rejects)
reverseCallMap(functionCallMap) ==
    LET names == [i \in 1..Len(functionCallMap) |-> functionCallMap[i].name]
        keys == UNION {Range(functionCallMap[i].callees) :
                         i \in 1..Len(functionCallMap)}
    IN  [callee \in keys |->
            SelectSeq(names,
                LAMBDA f : Includes(CalleesIn(functionCallMap, f), callee))]

buildProjectCallMap(prog) ==
    LET functionCallMap == impactCallMap(prog)
    IN  [functionCallMap |-> functionCallMap,
         callersMap |-> reverseCallMap(functionCallMap)]

RECURSIVE transitiveLevel(_, _, _, _, _)
RECURSIVE transitiveLevels(_, _, _, _, _)

\* the inner loop `for (const caller of currentLevel)` from element k on;
\* t holds result, visited, nextLevel and the count of iterations made
transitiveLevel(callersMap, currentLevel, k, depth, t) ==
    IF k > Len(currentLevel) THEN t
    ELSE
    LET caller == currentLevel[k]
        counted == [t EXCEPT !.iterations = @ + 1]
    IN  IF caller \notin t.visited
        THEN
        LET visited1 == t.visited \cup {caller}
            callerCallers == GetOrEmpty(callersMap, caller)
        IN  transitiveLevel(callersMap, currentLevel, k + 1, depth,
                [counted EXCEPT
                    !.visited = visited1,
                    !.result = MapSet(@, depth,
                                  Append(GetOrEmpty(@, depth), caller)),
                    !.nextLevel = @ \o SelectSeq(callerCallers,
                                          LAMBDA c : c \notin visited1)])
        ELSE transitiveLevel(callersMap, currentLevel, k + 1, depth, counted)

\* the outer loop `for (let depth = 1; depth <= maxDepth; depth++)`
transitiveLevels(callersMap, currentLevel, depth, maxDepth, t) ==
    IF depth > maxDepth THEN t
    ELSE
    LET done == transitiveLevel(callersMap, currentLevel, 1, depth,
                                [t EXCEPT !.nextLevel = <<>>])
    IN  transitiveLevels(callersMap, done.nextLevel, depth + 1, maxDepth, done)

\* findTransitiveCallers starting with an empty visited set
transitiveCallersRun_TargetNotVisited(functionName, callersMap, maxDepth) ==
    transitiveLevels(callersMap, GetOrEmpty(callersMap, functionName), 1,
        maxDepth,
        [result |-> EmptyMap, visited |-> {},
         nextLevel |-> <<>>, iterations |-> 0])

\* findTransitiveCallers adding the callers still waiting after the last
\* level to that level
transitiveCallersRun_LastLevelTakesRest(functionName, callersMap, maxDepth) ==
    LET run == transitiveLevels(callersMap,
                   GetOrEmpty(callersMap, functionName), 1, maxDepth,
                   [result |-> EmptyMap, visited |-> {functionName},
                    nextLevel |-> <<>>, iterations |-> 0])
    IN  IF Len(run.nextLevel) = 0 THEN run
        ELSE [run EXCEPT !.result =
                 MapSet(@, maxDepth,
                        GetOrEmpty(@, maxDepth) \o run.nextLevel)]

\* findTransitiveCallers with its loop count
transitiveCallersRun(functionName, callersMap, maxDepth) ==
    transitiveLevels(callersMap, GetOrEmpty(callersMap, functionName), 1,
        maxDepth,
        [result |-> EmptyMap, visited |-> {functionName},
         nextLevel |-> <<>>, iterations |-> 0])

findTransitiveCallers(functionName, callersMap, maxDepth) ==
    transitiveCallersRun(functionName, callersMap, maxDepth).result

\* a duplicate test that compares the cycles element by element
isDuplicateCycle_SameRotationOnly(cycles, cycle) ==
    \E i \in 1..Len(cycles) : cycles[i] = cycle

\* existing.length === cycle.length && existing.every(f => cycleSet.has(f))
isDuplicateCycle(cycles, cycle) ==
    \E i \in 1..Len(cycles) :
        /\ Len(cycles[i]) = Len(cycle)
        /\ Range(cycles[i]) \subseteq Range(cycle)

RECURSIVE dfs(_, _, _, _, _)
RECURSIVE dfsLoop(_, _, _, _, _, _)

\* `for (const callee of callees) dfs(callee)` from element k on
dfsLoop(functionName, functionCallMap, callees, k, path, s) ==
    IF k > Len(callees) THEN s
    ELSE dfsLoop(functionName, functionCallMap, callees, k + 1, path,
                 dfs(functionName, functionCallMap, callees[k], path, s))

\* dfs with the visited test made before the path test
dfs_VisitedTestFirst(functionName, functionCallMap, current, path, s) ==
    LET entered == [s EXCEPT !.invocations = @ + 1]
    IN  IF current \in s.visited THEN entered
        ELSE dfsLoop(functionName, functionCallMap,
                     CalleesIn(functionCallMap, current), 1,
                     Append(path, current),
                     [entered EXCEPT !.visited = @ \cup {current}])

\* dfs recording every cycle it closes, with or without the target
dfs_AnyCycle(functionName, functionCallMap, current, path, s) ==
    LET entered == [s EXCEPT !.invocations = @ + 1]
    IN  IF Includes(path, current)
        THEN
        LET cycleStart == CHOOSE i \in 1..Len(path) :
                             /\ path[i] = current
                             /\ \A j \in 1..(i - 1) : path[j] # current
            cycle == Append(SubSeq(path, cycleStart, Len(path)), current)
        IN  IF ~isDuplicateCycle(s.cycles, cycle)
            THEN [entered EXCEPT !.cycles = Append(@, cycle)]
            ELSE entered
        ELSE IF current \in s.visited THEN entered
        ELSE dfsLoop(functionName, functionCallMap,
                     CalleesIn(functionCallMap, current), 1,
                     Append(path, current),
                     [entered EXCEPT !.visited = @ \cup {current}])

\* dfs of detectCircularDependencies; s holds cycles, visited and the count
\* of invocations made; path is what the path array holds on entry (every
\* invocation leaves it as it found it)
dfs(functionName, functionCallMap, current, path, s) ==
    LET entered == [s EXCEPT !.invocations = @ + 1]
    IN  IF Includes(path, current)
        THEN
        LET cycleStart == CHOOSE i \in 1..Len(path) :
                             /\ path[i] = current
                             /\ \A j \in 1..(i - 1) : path[j] # current
            cycle == Append(SubSeq(path, cycleStart, Len(path)), current)
        IN  IF Includes(cycle, functionName)
                  /\ ~isDuplicateCycle(s.cycles, cycle)
            THEN [entered EXCEPT !.cycles = Append(@, cycle)]
            ELSE entered
        ELSE IF current \in s.visited THEN entered
        ELSE dfsLoop(functionName, functionCallMap,
                     CalleesIn(functionCallMap, current), 1,
                     Append(path, current),
                     [entered EXCEPT !.visited = @ \cup {current}])

RECURSIVE dfsStarts(_, _, _, _, _)

\* `for (const start of startPoints)`: visited and path are emptied
dfsStarts(functionName, functionCallMap, startPoints, k, s) ==
    IF k > Len(startPoints) THEN s
    ELSE dfsStarts(functionName, functionCallMap, startPoints, k + 1,
             dfs(functionName, functionCallMap, startPoints[k], <<>>,
                 [s EXCEPT !.visited = {}]))

\* detectCircularDependencies with its invocation count
circularDependenciesRun(functionName, functionCallMap, callersMap) ==
    dfsStarts(functionName, functionCallMap,
        <<functionName>> \o GetOrEmpty(callersMap, functionName), 1,
        [cycles |-> <<>>, visited |-> {}, invocations |-> 0])

detectCircularDependencies(functionName, functionCallMap, callersMap) ==
    circularDependenciesRun(functionName, functionCallMap, callersMap).cycles

\* calculateCyclomaticComplexity: 1 plus one per branching construct
calculateCyclomaticComplexity(node) == 1 + node.branches

\* Math.floor in the place of Math.round
MathRound_Truncates(num, den) == num \div den

\* Math.round of the fraction num/den (den > 0): halves go up
MathRound(num, den) == (2 * num + den) \div (2 * den)

fanInThreshold == 5

fanOutThreshold == 5

calculateComplexity(cyclomaticComplexity, fanIn, fanOut) ==
    LET isHotspot == fanIn >= fanInThreshold /\ fanOut >= fanOutThreshold
        weighted == fanIn * 3 + fanOut * 2 + cyclomaticComplexity * 2
        hotspotScore ==
            Min(100, IF isHotspot THEN MathRound(weighted * 3, 2)
                                  ELSE MathRound(weighted, 1))
    IN  [fanIn |-> fanIn,
         fanOut |-> fanOut,
         cyclomaticComplexity |-> cyclomaticComplexity,
         isHotspot |-> isHotspot,
         hotspotScore |-> hotspotScore]

\* step 7 of analyzeImpact: the metrics, or their stand-in
impactComplexity(includeComplexity, cyclomaticComplexity, fanIn, fanOut) ==
    IF includeComplexity
    THEN calculateComplexity(cyclomaticComplexity, fanIn, fanOut)
    ELSE [fanIn |-> fanIn,
          fanOut |-> fanOut,
          cyclomaticComplexity |-> 0,
          isHotspot |-> FALSE,
          hotspotScore |-> 0]

callerWeight == 2

transitiveWeight == 1

hotspotWeight == 15

circularWeight == 10

complexityWeight == 1

\* the weighted sum with every affected function counted as transitive
riskSum_CallersCountedTwice(directCallers, totalAffected, complexity, circularDeps) ==
    directCallers * callerWeight
        + totalAffected * transitiveWeight
        + (IF complexity.isHotspot THEN hotspotWeight ELSE 0)
        + circularDeps * circularWeight
        + (complexity.cyclomaticComplexity \div 5) * complexityWeight

\* the weighted sum before Math.min(100, score)
riskSum(directCallers, totalAffected, complexity, circularDeps) ==
    directCallers * callerWeight
        + (totalAffected - directCallers) * transitiveWeight
        + (IF complexity.isHotspot THEN hotspotWeight ELSE 0)
        + circularDeps * circularWeight
        + (complexity.cyclomaticComplexity \div 5) * complexityWeight

calculateRiskScore(directCallers, totalAffected, complexity, circularDeps) ==
    Min(100, riskSum(directCallers, totalAffected, complexity, circularDeps))

\* getRiskLevel with the band edges compared by <=
getRiskLevel_InclusiveEdges(score) ==
    IF score <= 10 THEN "low"
    ELSE IF score <= 30 THEN "medium"
    ELSE IF score <= 60 THEN "high"
    ELSE "critical"

getRiskLevel(score) ==
    IF score < 10 THEN "low"
    ELSE IF score < 30 THEN "medium"
    ELSE IF score < 60 THEN "high"
    ELSE "critical"

\* the suggestions left in the order of their generation
sortBySeverity_Unsorted(suggestions) == suggestions

\* Array.prototype.sort((a, b) => b.severity - a.severity): stable
sortBySeverity(suggestions) ==
    SelectSeq(suggestions, LAMBDA x : x.severity = 5)
        \o SelectSeq(suggestions, LAMBDA x : x.severity = 4)
        \o SelectSeq(suggestions, LAMBDA x : x.severity = 3)
        \o SelectSeq(suggestions, LAMBDA x : x.severity = 2)
        \o SelectSeq(suggestions, LAMBDA x : x.severity = 1)

\* generateSuggestions; a message is its template and what is put into it
generateSuggestions(functionName, callerCount, complexity, circularDeps, callees) ==
    LET callerRule ==
            IF callerCount >= 10
            THEN <<[type |-> "warning", severity |-> 4,
                    message |-> <<"callers-plan-testing", callerCount>>]>>
            ELSE IF callerCount >= 5
            THEN <<[type |-> "info", severity |-> 2,
                    message |-> <<"callers-moderate", callerCount>>]>>
            ELSE <<>>
        cycleRule ==
            [i \in 1..Len(circularDeps) |->
                [type |-> "warning", severity |-> 5,
                 message |-> <<"circular", circularDeps[i]>>]]
        fanOutRule ==
            IF Len(callees) >= 15
            THEN <<[type |-> "refactor", severity |-> 3,
                    message |-> <<"calls-break-up", Len(callees)>>]>>
            ELSE IF Len(callees) >= 10
            THEN <<[type |-> "info", severity |-> 2,
                    message |-> <<"calls-responsibilities", Len(callees)>>]>>
            ELSE <<>>
        hotspotRule ==
            IF complexity.isHotspot
            THEN <<[type |-> "warning", severity |-> 5,
                    message |-> <<"hotspot", functionName>>]>>
            ELSE <<>>
        complexityRule ==
            IF complexity.cyclomaticComplexity >= 15
            THEN <<[type |-> "refactor", severity |-> 3,
                    message |-> <<"complexity-high",
                                  complexity.cyclomaticComplexity>>]>>
            ELSE IF complexity.cyclomaticComplexity >= 10
            THEN <<[type |-> "info", severity |-> 2,
                    message |-> <<"complexity-moderate",
                                  complexity.cyclomaticComplexity>>]>>
            ELSE <<>>
    IN  sortBySeverity(callerRule \o cycleRule \o fanOutRule \o hotspotRule
                           \o complexityRule)

\* the affected set built from the levels alone
countAffected_LevelsOnly(directCallers, transitiveCallers) ==
    Cardinality(UNION {Range(transitiveCallers[d]) :
                          d \in DOMAIN transitiveCallers})

\* the size of the Set built in step 8 of analyzeImpact
countAffected(directCallers, transitiveCallers) ==
    Cardinality(Range(directCallers)
        \cup UNION {Range(transitiveCallers[d]) : d \in DOMAIN transitiveCallers})

\* analyzeImpact on a project that has source files
\* the result of analyzeImpact made of the target's definition, the two
\* maps, the run of findTransitiveCallers and that of
\* detectCircularDependencies
impactResult(functionName, targetLocation, maps, levels, cycles, includeComplexity) ==
    LET functionCallMap == maps.functionCallMap
        callersMap == maps.callersMap
        directCallers == GetOrEmpty(callersMap, functionName)
        callees == CalleesIn(functionCallMap, functionName)
        complexity ==
            impactComplexity(includeComplexity,
                calculateCyclomaticComplexity(targetLocation),
                Len(directCallers), Len(callees))
        totalAffected == countAffected(directCallers, levels.result)
        riskScore == calculateRiskScore(Len(directCallers), totalAffected,
                                        complexity, Len(cycles.cycles))
    IN  [kind |-> "impact",
         impact |->
            [functionName |-> functionName,
             location |-> [file |-> targetLocation.filePath,
                           line |-> targetLocation.line,
                           column |-> targetLocation.column],
             directCallers |-> directCallers,
             transitiveCallers |-> levels.result,
             totalAffected |-> totalAffected,
             riskScore |-> riskScore,
             riskLevel |-> getRiskLevel(riskScore),
             complexity |-> complexity,
             circularDependencies |-> cycles.cycles,
             suggestions |->
                generateSuggestions(functionName, Len(directCallers),
                    complexity, cycles.cycles, callees)],
         work |-> [transitiveLevel |-> levels.iterations,
                   dfs |-> cycles.invocations]]

analyzeImpact(prog, functionName, depth, includeComplexity) ==
    LET locations == findFunction(prog, functionName)
    IN  IF Len(locations) = 0
        THEN [kind |-> "error", error |-> "FUNCTION_NOT_FOUND"]
        ELSE
        LET maps == buildProjectCallMap(prog)
        IN  impactResult(functionName, locations[1], maps,
                transitiveCallersRun(functionName, maps.callersMap, depth),
                circularDependenciesRun(functionName, maps.functionCallMap,
                                        maps.callersMap),
                includeComplexity)

----------------------------------------------------------------------------
(* visualizer/json.ts *)

calculateComplexityMetrics(fanIn, fanOut) ==
    LET isHotspot == fanIn >= fanInThreshold /\ fanOut >= fanOutThreshold
        weighted == fanIn * 3 + fanOut * 2
    IN  [fanIn |-> fanIn,
         fanOut |-> fanOut,
         isHotspot |-> isHotspot,
         hotspotScore |->
             Min(100, IF isHotspot THEN MathRound(weighted * 3, 2)
                                   ELSE MathRound(weighted, 1))]

\* the adjacency list built from the edges: for every `from`, in the order
\* of its first edge, the `to` of each of its edges
exportAdjacency(edges) ==
    LET froms == Dedupe([k \in 1..Len(edges) |-> edges[k].from])
    IN  [i \in 1..Len(froms) |->
            [name |-> froms[i],
             callees |-> LET own == SelectSeq(edges,
                                        LAMBDA e : e.from = froms[i])
                         IN  [k \in 1..Len(own) |-> own[k].to]]]

\* detectCircularDependencies of the exporter: the same search over the
\* adjacency list, started at the target and at each of graph.callers
exportCircularDependencies(graph) ==
    dfsStarts(graph.targetNode.name, exportAdjacency(graph.edges),
        <<graph.targetNode.name>> \o graph.callers, 1,
        [cycles |-> <<>>, visited |-> {}, invocations |-> 0]).cycles

\* the complexity field of exportToJson
exportComplexity(graph) ==
    calculateComplexityMetrics(Len(graph.callers), Len(graph.callees))

----------------------------------------------------------------------------
(* mcp/handlers.ts: the depths a tool call hands to the analysers *)

MAX_DEPTH == 10

MIN_DEPTH == 1

Depths == MIN_DEPTH..MAX_DEPTH

Directions == {"callers", "callees", "both"}

----------------------------------------------------------------------------
(* analyzer/index.ts *)

\* analyzeTypeScriptCallGraph on a project with source files: the first
\* definition found is the target; no definition is an error
analyzeCallGraph(prog, functionName, depth, direction) ==
    LET locations == findFunction(prog, functionName)
    IN  IF Len(locations) = 0
        THEN [kind |-> "error", error |-> "FUNCTION_NOT_FOUND"]
        ELSE [kind |-> "graph",
              graph |-> buildCallGraph(prog, locations[1], depth, direction)]

\* the roots a query can name: the root of the analysed project and a
\* directory without source files
ProjectRoot == "/project"

EmptyRoot == "/empty"

\* the source file of the project by its absolute path
ProjectFile == "/project/index.ts"

\* scanProject: the source files under the root and the program made of them
scanProject(prog, projectRoot) ==
    IF projectRoot = ProjectRoot
    THEN [sourceFiles |-> <<SourceFile>>, program |-> prog]
    ELSE [sourceFiles |-> <<>>, program |-> <<>>]

\* options.filePath, absent when the field is
HasFilePath(options) == "filePath" \in DOMAIN options

\* filePath || projectRoot
searchScope(options) ==
    IF HasFilePath(options) THEN options.filePath ELSE options.projectRoot

\* the definitions findFunction searches: those of the file when a filePath
\* is given (none when the program has no such file), else all
searchedDefinitions(prog, options) ==
    IF HasFilePath(options) /\ options.filePath # ProjectFile
    THEN <<>> ELSE prog

\* `throw new Error(message)`; the message is kept as its parts
Thrown(code, message) == [kind |-> "error", error |-> code, message |-> message]

\* analyzeTypeScriptCallGraph looking for the function before it looks at
\* the source files
analyzeTypeScriptCallGraph_FindsFirst(prog, options) ==
    LET projectInfo == scanProject(prog, options.projectRoot)
        locations == findFunction(
                         searchedDefinitions(projectInfo.program, options),
                         options.functionName)
    IN  IF Len(locations) = 0
        THEN Thrown("FUNCTION_NOT_FOUND",
                    <<"Function \"", options.functionName,
                      "\" not found in ", searchScope(options),
                      ". Searched ", ToString(Len(projectInfo.sourceFiles)),
                      " files.">>)
        ELSE IF Len(projectInfo.sourceFiles) = 0
        THEN Thrown("NO_SOURCE_FILES",
                    <<"No source files found in ", options.projectRoot>>)
        ELSE analyzeCallGraph(projectInfo.program, options.functionName,
                              options.depth, options.direction)

\* analyzeTypeScriptCallGraph from its options: the scan of the project,
\* the search for the target, the graph
analyzeTypeScriptCallGraph(prog, options) ==
    LET projectInfo == scanProject(prog, options.projectRoot)
        locations == findFunction(
                         searchedDefinitions(projectInfo.program, options),
                         options.functionName)
    IN  IF Len(projectInfo.sourceFiles) = 0
        THEN Thrown("NO_SOURCE_FILES",
                    <<"No source files found in ", options.projectRoot>>)
        ELSE IF Len(locations) = 0
        THEN Thrown("FUNCTION_NOT_FOUND",
                    <<"Function \"", options.functionName,
                      "\" not found in ", searchScope(options),
                      ". Searched ", ToString(Len(projectInfo.sourceFiles)),
                      " files.">>)
        ELSE analyzeCallGraph(projectInfo.program, options.functionName,
                              options.depth, options.direction)

\* analyzeImpact from its options
analyzeImpactOptions(prog, options) ==
    LET projectInfo == scanProject(prog, options.projectRoot)
        locations == findFunction(
                         searchedDefinitions(projectInfo.program, options),
                         options.functionName)
    IN  IF Len(projectInfo.sourceFiles) = 0
        THEN Thrown("NO_SOURCE_FILES",
                    <<"No source files found in ", options.projectRoot>>)
        ELSE IF Len(locations) = 0
        THEN Thrown("FUNCTION_NOT_FOUND",
                    <<"Function \"", options.functionName,
                      "\" not found in ", searchScope(options)>>)
        ELSE analyzeImpact(projectInfo.program, options.functionName,
                           options.depth, options.includeComplexity)

----------------------------------------------------------------------------
(* The query specification: a project and one query on it, a call graph  *)
(* or an impact analysis                                                   *)

NoResult == [kind |-> "none"]

GraphRequests(prog) ==
    [op : {"analyzeCallGraph"}, projectRoot : {ProjectRoot},
     functionName : QueryNames(prog), depth : Depths, direction : Directions]

ImpactRequests(prog) ==
    [op : {"analyzeImpact"}, projectRoot : {ProjectRoot},
     functionName : QueryNames(prog), depth : Depths,
     includeComplexity : BOOLEAN]

\* a project and the query made on it
Init ==
    /\ program \in Projects
    /\ query \in GraphRequests(program) \cup ImpactRequests(program)
    /\ result = NoResult

AnalyzeCallGraph ==
    /\ query.op = "analyzeCallGraph"
    /\ result = NoResult
    /\ result' = analyzeTypeScriptCallGraph(program, query)
    /\ UNCHANGED <<program, query>>

AnalyzeImpact ==
    /\ query.op = "analyzeImpact"
    /\ result = NoResult
    /\ result' = analyzeImpactOptions(program, query)
    /\ UNCHANGED <<program, query>>

Next == AnalyzeCallGraph \/ AnalyzeImpact

Spec == Init /\ [][Next]_vars

----------------------------------------------------------------------------
(* The dense specification: the same two queries on densely connected     *)
(* projects, with the shallowest, the default and the deepest depth       *)

cliDefaultDepth == 2

impactDefaultDepth == 3

DenseGraphRequests(prog) ==
    [op : {"analyzeCallGraph"}, projectRoot : {ProjectRoot},
     functionName : DefinedNames(prog),
     depth : {MIN_DEPTH, cliDefaultDepth, MAX_DEPTH}, direction : Directions]

DenseImpactRequests(prog) ==
    [op : {"analyzeImpact"}, projectRoot : {ProjectRoot},
     functionName : DefinedNames(prog),
     depth : {impactDefaultDepth}, includeComplexity : {TRUE}]

InitDense ==
    /\ program \in DenseProjects
    /\ query \in DenseGraphRequests(program) \cup DenseImpactRequests(program)
    /\ result = NoResult

SpecDense == InitDense /\ [][Next]_vars

----------------------------------------------------------------------------
(* The scan specification: the same two queries on projects with a name   *)
(* defined twice, made on the project's root or on a root without source  *)
(* files, for a name with or without a definition                         *)

ScanGraphRequests(prog) ==
    [op : {"analyzeCallGraph"}, projectRoot : {ProjectRoot, EmptyRoot},
     functionName : QueryNames(prog),
     depth : {MIN_DEPTH, cliDefaultDepth, MAX_DEPTH}, direction : Directions]

ScanImpactRequests(prog) ==
    [op : {"analyzeImpact"}, projectRoot : {ProjectRoot, EmptyRoot},
     functionName : QueryNames(prog), depth : {impactDefaultDepth},
     includeComplexity : {TRUE}]

InitScan ==
    /\ program \in DupProjects
    /\ query \in ScanGraphRequests(program) \cup ScanImpactRequests(program)
    /\ result = NoResult

SpecScan == InitScan /\ [][Next]_vars

----------------------------------------------------------------------------
(* mcp/handlers.ts: the tool calls. The arguments of a call are JavaScript *)
(* values of any type, each kept with its type.                            *)

Undefined == [type |-> "undefined"]

Null == [type |-> "null"]

Str(s) == [type |-> "string", value |-> s]

Bool(b) == [type |-> "boolean", value |-> b]

\* the number num/den (den > 0), and the three numbers that are no ratio
Finite(num, den) == [type |-> "number", kind |-> "finite", num |-> num, den |-> den]

NaN == [type |-> "number", kind |-> "NaN"]

PosInfinity == [type |-> "number", kind |-> "Infinity"]

NegInfinity == [type |-> "number", kind |-> "-Infinity"]

\* !v
Falsy(v) ==
    \/ v.type \in {"undefined", "null"}
    \/ v.type = "string" /\ v.value = ""
    \/ v.type = "boolean" /\ ~v.value
    \/ v.type = "number" /\ v.kind = "NaN"
    \/ v.type = "number" /\ v.kind = "finite" /\ v.num = 0

\* typeof v
TypeOf(v) == IF v.type = "null" THEN "object" ELSE v.type

\* x < y for two numbers other than NaN
NumberLess(x, y) ==
    IF x.kind = "-Infinity" THEN y.kind # "-Infinity"
    ELSE IF x.kind = "Infinity" THEN FALSE
    ELSE IF y.kind = "Infinity" THEN TRUE
    ELSE IF y.kind = "-Infinity" THEN FALSE
    ELSE x.num * y.den < y.num * x.den

MathMax(x, y) == IF NumberLess(x, y) THEN y ELSE x

MathMin(x, y) == IF NumberLess(x, y) THEN x ELSE y

\* Math.floor: the infinities are their own floor
MathFloor(x) ==
    IF x.kind = "finite" THEN Finite(x.num \div x.den, 1) ELSE x

\* String(v) for the values thrown or passed here
String(v) ==
    CASE v.type = "string" -> v.value
      [] v.type = "undefined" -> "undefined"
      [] v.type = "null" -> "null"
      [] v.type = "boolean" -> IF v.value THEN "true" ELSE "false"
      [] v.type = "number" ->
            IF v.kind = "finite" /\ v.den = 1 THEN ToString(v.num)
            ELSE IF v.kind = "finite"
            THEN ToString(v.num) \o "/" \o ToString(v.den)
            ELSE v.kind

\* new Error(message), the message kept as its parts
ErrorValue(message) == [type |-> "Error", message |-> message]

\* the paths of the calls: the two roots, the project's root written with a
\* .. segment, a relative path, a path with a null byte, the project's
\* file, the same written relative
DottedRoot == "/project/src/.."

RelativeRoot == "project"

NulPath == "/project<NUL>"

RelativeFile == "index.ts"

\* path.normalize
pathNormalize(p) == IF p = DottedRoot THEN ProjectRoot ELSE p

\* path.isAbsolute
pathIsAbsolute(p) == p \in {ProjectRoot, EmptyRoot, DottedRoot, NulPath, ProjectFile}

\* the outcome of a step that returns a value or throws one
Returned(value) == [kind |-> "return", value |-> value]

Threw(error) == [kind |-> "throw", error |-> error]

validateAndNormalizePath(inputPath, paramName) ==
    IF Falsy(inputPath) \/ TypeOf(inputPath) # "string"
    THEN Threw(ErrorValue(<<paramName, " is required">>))
    ELSE LET normalized == pathNormalize(inputPath.value)
         IN  IF ~pathIsAbsolute(normalized)
             THEN Threw(ErrorValue(<<paramName, " must be an absolute path">>))
             ELSE IF normalized = NulPath
             THEN Threw(ErrorValue(<<paramName, " contains invalid characters">>))
             ELSE Returned(normalized)

\* the default of validateDepth's defaultValue, and the default the
\* analyze_impact handler passes
toolDefaultDepth == 2

impactToolDepth == 3

\* validateDepth rounding to the nearest integer
validateDepth_Rounds(depth, defaultValue) ==
    IF depth.type \in {"undefined", "null"} THEN defaultValue
    ELSE IF TypeOf(depth) # "number" \/ depth.kind = "NaN" THEN defaultValue
    ELSE MathMin(MathMax(Finite(MIN_DEPTH, 1),
                         IF depth.kind = "finite"
                         THEN Finite(MathRound(depth.num, depth.den), 1)
                         ELSE depth),
                 Finite(MAX_DEPTH, 1)).num

validateDepth(depth, defaultValue) ==
    IF depth.type \in {"undefined", "null"} THEN defaultValue
    ELSE IF TypeOf(depth) # "number" \/ depth.kind = "NaN" THEN defaultValue
    ELSE MathMin(MathMax(Finite(MIN_DEPTH, 1), MathFloor(depth)),
                 Finite(MAX_DEPTH, 1)).num

\* the tools of the server
ToolNames ==
    {"analyze_function_calls", "find_function", "visualize_callgraph",
     "analyze_impact"}

Formats == {"mermaid", "ascii", "json"}

\* what an analyzer does when a handler calls it: it runs, or it fails with
\* the error or the other value given (as the file system makes it fail)
NoFault == [type |-> "none"]

\* the call of an analyzer: the record of the invocation, and the value
\* returned or thrown
invokeAnalyzer(analyzer, options, fault, outcome) ==
    [invoked |-> <<[analyzer |-> analyzer, options |-> options]>>,
     outcome |-> IF fault # NoFault THEN Threw(fault)
                 ELSE IF outcome.kind = "error"
                 THEN Threw(ErrorValue(outcome.message))
                 ELSE Returned(outcome)]

\* a handler that throws before it calls an analyzer
ThrewEarly(error) == [invoked |-> <<>>, outcome |-> Threw(error)]

\* the options with the filePath field when a path was given
WithFilePath(options, filePath) ==
    IF filePath.type = "undefined" THEN options
    ELSE [f \in DOMAIN options \cup {"filePath"} |->
             IF f = "filePath" THEN filePath.value ELSE options[f]]

\* const {...} = args of a handler when args is not an object
DestructureError == ErrorValue(<<"Cannot destructure property functionName of args as it is undefined.">>)

\* filePath ? validateAndNormalizePath(filePath, "filePath") : undefined
normalizeFilePath(filePath) ==
    IF Falsy(filePath) THEN Returned(Undefined)
    ELSE LET normalized == validateAndNormalizePath(filePath, "filePath")
         IN  IF normalized.kind = "throw" THEN normalized
             ELSE Returned(Str(normalized.value))

\* direction = "both" in the destructuring
directionOf(args) ==
    IF args.direction.type = "undefined" THEN "both" ELSE args.direction.value

\* the text of analyze_function_calls, built from the graph returned
formatFunctionCalls(options, call) ==
    IF call.outcome.kind = "throw" THEN call
    ELSE [invoked |-> call.invoked,
          outcome |-> Returned(
             [content |-> <<[type |-> "text",
                text |-> [heading |-> <<"## Call Graph: ",
                                       options.functionName, "">>,
                          foundIn |->
                              <<call.outcome.value.graph.targetNode.location.file,
                                call.outcome.value.graph.targetNode.location.line>>,
                          callers |-> call.outcome.value.graph.callers,
                          callees |-> call.outcome.value.graph.callees,
                          totalNodes |->
                              Cardinality(DOMAIN call.outcome.value.graph.nodes)]]>>])]

handleAnalyzeFunctionCalls(prog, args, fault) ==
    IF args.type # "object" THEN ThrewEarly(DestructureError)
    ELSE IF Falsy(args.functionName) \/ TypeOf(args.functionName) # "string"
    THEN ThrewEarly(ErrorValue(<<"functionName is required and must be a string">>))
    ELSE
    LET normalizedRoot == validateAndNormalizePath(args.projectRoot, "projectRoot")
        normalizedFilePath == normalizeFilePath(args.filePath)
    IN  IF normalizedRoot.kind = "throw" THEN ThrewEarly(normalizedRoot.error)
        ELSE IF normalizedFilePath.kind = "throw"
        THEN ThrewEarly(normalizedFilePath.error)
        ELSE
        LET options == WithFilePath(
                           [functionName |-> args.functionName.value,
                            projectRoot |-> normalizedRoot.value,
                            depth |-> validateDepth(args.depth, toolDefaultDepth),
                            direction |-> directionOf(args)],
                           normalizedFilePath.value)
        IN  formatFunctionCalls(options,
                invokeAnalyzer("analyzeCallGraph", options, fault,
                    analyzeTypeScriptCallGraph(prog, options)))

\* findFunctionDefinitions: no error for a project without source files
findFunctionDefinitions(prog, projectRoot, functionName) ==
    LET locations == findFunction(scanProject(prog, projectRoot).program,
                                  functionName)
    IN  [k \in 1..Len(locations) |->
            [file |-> locations[k].filePath, line |-> locations[k].line,
             column |-> locations[k].column, kind |-> locations[k].kind]]

\* the text of find_function, built from the locations returned
formatLocations(options, projectRoot, call) ==
    IF call.outcome.kind = "throw" THEN call
    ELSE [invoked |-> call.invoked,
          outcome |-> Returned(
             [content |-> <<[type |-> "text",
                text |-> IF Len(call.outcome.value.locations) = 0
                         THEN [heading |->
                                 <<"No definitions found for function ",
                                   options.functionName, " in ", projectRoot>>]
                         ELSE [heading |->
                                 <<"## Found ",
                                   ToString(Len(call.outcome.value.locations)),
                                   " definition(s) of ",
                                   options.functionName, "">>,
                               locations |->
                                   call.outcome.value.locations]]>>])]

handleFindFunction(prog, args, fault) ==
    IF args.type # "object" THEN ThrewEarly(DestructureError)
    ELSE IF Falsy(args.functionName) \/ TypeOf(args.functionName) # "string"
    THEN ThrewEarly(ErrorValue(<<"functionName is required and must be a string">>))
    ELSE
    LET normalizedRoot == validateAndNormalizePath(args.projectRoot, "projectRoot")
    IN  IF normalizedRoot.kind = "throw" THEN ThrewEarly(normalizedRoot.error)
        ELSE
        LET options == [functionName |-> args.functionName.value,
                        projectRoot |-> normalizedRoot.value]
        IN  formatLocations(options, args.projectRoot.value,
                invokeAnalyzer("findFunctionDefinitions", options, fault,
                    [kind |-> "locations",
                     locations |-> findFunctionDefinitions(prog,
                         options.projectRoot, options.functionName)]))

\* the text of visualize_callgraph, built from the graph returned
formatVisualization(options, format, call) ==
    IF call.outcome.kind = "throw" THEN call
    ELSE [invoked |-> call.invoked,
          outcome |-> Returned(
             [content |-> <<[type |-> "text",
                text |-> [heading |-> <<"## Call Graph: ",
                                       options.functionName, " (", format, ")">>,
                          nodes |-> DOMAIN call.outcome.value.graph.nodes,
                          edges |->
                             [k \in 1..Len(call.outcome.value.graph.edges) |->
                                <<call.outcome.value.graph.edges[k].from,
                                  call.outcome.value.graph.edges[k].to>>]]]>>])]

handleVisualizeCallgraph(prog, args, fault) ==
    IF args.type # "object" THEN ThrewEarly(DestructureError)
    ELSE IF Falsy(args.functionName) \/ TypeOf(args.functionName) # "string"
    THEN ThrewEarly(ErrorValue(<<"functionName is required and must be a string">>))
    ELSE IF Falsy(args.format) \/ args.format.type # "string"
                \/ args.format.value \notin Formats
    THEN ThrewEarly(ErrorValue(<<"format is required and must be one of: mermaid, ascii, json">>))
    ELSE
    LET normalizedRoot == validateAndNormalizePath(args.projectRoot, "projectRoot")
    IN  IF normalizedRoot.kind = "throw" THEN ThrewEarly(normalizedRoot.error)
        ELSE
        LET options == [functionName |-> args.functionName.value,
                        projectRoot |-> normalizedRoot.value,
                        depth |-> validateDepth(args.depth, toolDefaultDepth),
                        direction |-> directionOf(args)]
        IN  formatVisualization(options, args.format.value,
                invokeAnalyzer("analyzeCallGraph", options, fault,
                    analyzeTypeScriptCallGraph(prog, options)))

\* the text of analyze_impact, built from the report returned
formatImpact(options, call) ==
    IF call.outcome.kind = "throw" THEN call
    ELSE [invoked |-> call.invoked,
          outcome |-> Returned(
             [content |-> <<[type |-> "text",
                text |-> [heading |-> <<"Impact: ", options.functionName>>,
                          report |-> call.outcome.value.impact]]>>])]

handleAnalyzeImpact(prog, args, fault) ==
    IF args.type # "object" THEN ThrewEarly(DestructureError)
    ELSE IF Falsy(args.functionName) \/ TypeOf(args.functionName) # "string"
    THEN ThrewEarly(ErrorValue(<<"functionName is required and must be a string">>))
    ELSE
    LET normalizedRoot == validateAndNormalizePath(args.projectRoot, "projectRoot")
        normalizedFilePath == normalizeFilePath(args.filePath)
    IN  IF normalizedRoot.kind = "throw" THEN ThrewEarly(normalizedRoot.error)
        ELSE IF normalizedFilePath.kind = "throw"
        THEN ThrewEarly(normalizedFilePath.error)
        ELSE
        LET options == WithFilePath(
                           [functionName |-> args.functionName.value,
                            projectRoot |-> normalizedRoot.value,
                            depth |-> validateDepth(args.depth, impactToolDepth),
                            includeComplexity |-> TRUE],
                           normalizedFilePath.value)
        IN  formatImpact(options,
                invokeAnalyzer("analyzeImpact", options, fault,
                    analyzeImpactOptions(prog, options)))

\* the message of the catch clause reading error.message of whatever was
\* thrown
errorMessage_MessageOnly(error) ==
    IF error.type = "Error" THEN error.message ELSE <<"undefined">>

\* error instanceof Error ? error.message : String(error)
errorMessage(error) ==
    IF error.type = "Error" THEN error.message ELSE <<String(error)>>

\* switch (name): the handler of the tool named, or a throw
dispatchTool(prog, name, args, fault) ==
    CASE name = "analyze_function_calls" ->
            handleAnalyzeFunctionCalls(prog, args, fault)
      [] name = "find_function" -> handleFindFunction(prog, args, fault)
      [] name = "visualize_callgraph" ->
            handleVisualizeCallgraph(prog, args, fault)
      [] name = "analyze_impact" -> handleAnalyzeImpact(prog, args, fault)
      [] OTHER -> ThrewEarly(ErrorValue(<<"Unknown tool: ", name>>))

\* try/catch: what a handler returned, or the error response for what it
\* threw
catchToolError(handled) ==
    [invoked |-> handled.invoked,
     response |->
        IF handled.outcome.kind = "throw"
        THEN [content |-> <<[type |-> "text",
                             text |-> <<"Error: ">>
                                 \o errorMessage(handled.outcome.error)]>>,
              isError |-> TRUE]
        ELSE handled.outcome.value]

\* handleToolCall: the response, and the analyzer invocations made
handleToolCall(prog, request, fault) ==
    catchToolError(dispatchTool(prog, request.params.name,
                                request.params.arguments, fault))

----------------------------------------------------------------------------
(* The tool specification: one tool call on a project, with arguments of   *)
(* every shape a client can send                                           *)

\* the largest whole depth argument tried, and one far beyond it
MaxDepthArgument == 11

HugeDepth == 1000000

\* the values tried for each argument of a tool
ArgumentValues ==
    [depth |->
        {Undefined, Null, Str("5"), Bool(TRUE), NaN, PosInfinity, NegInfinity,
         Finite(HugeDepth, 1)}
            \cup {Finite(n, 1) : n \in -1..MaxDepthArgument}
            \cup {Finite(n, 2) : n \in {-1, 1, 5, 2 * MAX_DEPTH + 1}},
     functionName |->
        {Undefined, Str(""), Finite(123, 1), Str("f1"), Str("helper")},
     projectRoot |->
        {Undefined, Finite(5, 1), Str(RelativeRoot), Str(ProjectRoot),
         Str(EmptyRoot), Str(DottedRoot), Str(NulPath)},
     filePath |-> {Undefined, Str(""), Str(RelativeFile), Str(ProjectFile)},
     format |-> {Undefined, Str("svg")} \cup {Str(f) : f \in Formats},
     direction |-> {Undefined, Str("callees")}]

ToolArguments(name) ==
    {Undefined} \cup
    CASE name = "analyze_function_calls" ->
            [type : {"object"}, functionName : ArgumentValues.functionName,
             projectRoot : ArgumentValues.projectRoot, filePath : ArgumentValues.filePath,
             depth : ArgumentValues.depth, direction : ArgumentValues.direction]
      [] name = "find_function" ->
            [type : {"object"}, functionName : ArgumentValues.functionName,
             projectRoot : ArgumentValues.projectRoot]
      [] name = "visualize_callgraph" ->
            [type : {"object"}, functionName : ArgumentValues.functionName,
             projectRoot : ArgumentValues.projectRoot, format : ArgumentValues.format,
             depth : ArgumentValues.depth, direction : ArgumentValues.direction]
      [] name = "analyze_impact" ->
            [type : {"object"}, functionName : ArgumentValues.functionName,
             projectRoot : ArgumentValues.projectRoot, filePath : ArgumentValues.filePath,
             depth : ArgumentValues.depth]
      [] OTHER -> {[type |-> "object"]}

Faults == {NoFault, ErrorValue(<<"Analysis failed">>), Str("string error")}

ToolCalls ==
    UNION {[request : [params : [name : {name},
                                 arguments : ToolArguments(name)]],
            fault : Faults] : name \in ToolNames \cup {"unknown_tool"}}

InitTool ==
    /\ program \in {ChainProject(NumFuncs - 1, <<>>)}
    /\ query \in ToolCalls
    /\ result = NoResult

HandleToolCall ==
    /\ result = NoResult
    /\ result' = handleToolCall(program, query.request, query.fault)
    /\ UNCHANGED <<program, query>>

NextTool == HandleToolCall

SpecTool == InitTool /\ [][NextTool]_vars

----------------------------------------------------------------------------
(* The concurrent specification: two queries on one project whose steps   *)
(* interleave. query is the pair of the requests, result the pair of the  *)
(* tasks; a task holds the state its query has created so far, and `out`  *)
(* once it is done. A step is one entry or one turn of a loop.            *)

ConcurrentProjects ==
    {DenseProject(DenseFuncs - 1, extras) :
        extras \in {<<>>} \cup {<<e>> : e \in DenseCalls(DenseFuncs - 1)}}

ConcurrentRequests(prog) ==
    [op : {"analyzeCallGraph"}, projectRoot : {ProjectRoot},
     functionName : DefinedNames(prog), depth : {cliDefaultDepth},
     direction : {"callees", "both"}]
        \cup [op : {"analyzeImpact"}, projectRoot : {ProjectRoot},
              functionName : DefinedNames(prog), depth : {impactDefaultDepth},
              includeComplexity : {TRUE}]

NewTask == [pc |-> "start"]

\* a visited set that all the queries in progress share
visitedOf_Shared(tasks, i) ==
    UNION {IF tasks[j].pc = "callees" THEN tasks[j].g.visited ELSE {} :
              j \in DOMAIN tasks}

\* the visited set task i consults: the one buildCallGraph made for it
visitedOf(tasks, i) == tasks[i].g.visited

\* the entry of buildCallees: the guards, the mark, and the frame of the
\* loop over the call sites
enterBuildCallees(functionName, functionNode, currentDepth, g, maxDepth, visited) ==
    LET entered == [g EXCEPT !.invocations = @ + 1]
    IN  IF currentDepth >= maxDepth THEN entered
        ELSE IF functionName \in visited THEN entered
        ELSE [entered EXCEPT
                 !.visited = @ \cup {functionName},
                 !.scanned = @ \cup {<<functionName, currentDepth>>},
                 !.stack = Append(@, [functionName |-> functionName,
                                      calls |-> findCallsInFunction(functionNode),
                                      k |-> 1,
                                      currentDepth |-> currentDepth])]

\* one turn of the loop of the innermost buildCallees in progress: its next
\* call site, or its return when none is left
stepBuildCallees(prog, g, maxDepth, visited) ==
    LET top == Len(g.stack)
        frame == g.stack[top]
    IN  IF frame.k > Len(frame.calls)
        THEN [g EXCEPT !.stack = SubSeq(@, 1, top - 1)]
        ELSE
        LET call == frame.calls[frame.k]
            calleeName == call.calleeName
            advanced == [g EXCEPT !.stack[top].k = @ + 1]
        IN  IF isBuiltInFunction(calleeName, call.receiver) THEN advanced
            ELSE
            LET nodes1 == IF calleeName \notin DOMAIN g.nodes
                          THEN MapSet(g.nodes, calleeName,
                                 [name |-> calleeName,
                                  location |-> call.location,
                                  kind |-> "function"])
                          ELSE g.nodes
                calleeLocations == findFunction(prog, calleeName)
                g1 == [advanced EXCEPT
                          !.edges = Append(@,
                             [from |-> frame.functionName, to |-> calleeName,
                              location |-> [file |-> call.location.file,
                                            line |-> call.location.line]]),
                          !.directCallees =
                             IF frame.currentDepth = 0
                             THEN Append(@, calleeName) ELSE @,
                          !.nodes = nodes1]
            IN  IF Len(calleeLocations) > 0
                THEN enterBuildCallees(calleeName, calleeLocations[1],
                         frame.currentDepth + 1,
                         [g1 EXCEPT !.nodes =
                            MapSet(nodes1, calleeName,
                              [name |-> calleeName,
                               location |->
                                 [file |-> calleeLocations[1].filePath,
                                  line |-> calleeLocations[1].line,
                                  column |-> calleeLocations[1].column],
                               kind |-> calleeLocations[1].kind])],
                         maxDepth, visited)
                ELSE g1

\* the graph a task returns: the callee pass as it stands, then the caller
\* pass when the direction asks for it
finishCallGraph(prog, options, targetNode, g) ==
    LET up == IF options.direction \in {"callers", "both"}
              THEN findCallers(prog, options.functionName, options.depth,
                               g.nodes, g.edges)
              ELSE [nodes |-> g.nodes, edges |-> g.edges, visited |-> {},
                    directCallers |-> <<>>, invocations |-> 0]
    IN  [kind |-> "graph",
         graph |-> [targetNode |-> targetNode,
                    nodes |-> up.nodes,
                    edges |-> up.edges,
                    callers |-> up.directCallers,
                    callees |-> g.directCallees,
                    work |-> [buildCallees |-> g.invocations,
                              scanned |-> g.scanned,
                              findCallersRecursive |-> up.invocations]]]

InitConcurrent ==
    /\ program \in ConcurrentProjects
    /\ query \in ConcurrentRequests(program) \X ConcurrentRequests(program)
    /\ result = <<NewTask, NewTask>>

\* buildCallGraph up to the entry of buildCallees for the target
StartCallGraph(i) ==
    /\ query[i].op = "analyzeCallGraph"
    /\ result[i].pc = "start"
    /\ LET targetFunction == findFunction(program, query[i].functionName)[1]
           targetNode == [name |-> targetFunction.name,
                          location |-> [file |-> targetFunction.filePath,
                                        line |-> targetFunction.line,
                                        column |-> targetFunction.column],
                          kind |-> targetFunction.kind]
           g0 == [nodes |-> MapSet(EmptyMap, targetFunction.name, targetNode),
                  edges |-> <<>>, visited |-> {}, scanned |-> {},
                  invocations |-> 0, directCallees |-> <<>>, stack |-> <<>>]
           created == [result EXCEPT ![i] = [pc |-> "callees", g |-> g0]]
       IN  result' = [result EXCEPT ![i] =
                         [pc |-> "callees",
                          targetNode |-> targetNode,
                          g |-> enterBuildCallees(targetFunction.name,
                                    targetFunction, 0, g0, query[i].depth,
                                    visitedOf(created, i))]]
    /\ UNCHANGED <<program, query>>

\* one turn of the callee pass
StepCallees(i) ==
    /\ result[i].pc = "callees"
    /\ Len(result[i].g.stack) > 0
    /\ result' = [result EXCEPT ![i].g =
                     stepBuildCallees(program, @, query[i].depth,
                                      visitedOf(result, i))]
    /\ UNCHANGED <<program, query>>

\* the callee pass has returned: the caller pass, and the graph
FinishCallGraph(i) ==
    /\ result[i].pc = "callees"
    /\ Len(result[i].g.stack) = 0
    /\ result' = [result EXCEPT ![i] =
                     [pc |-> "done",
                      out |-> finishCallGraph(program, query[i],
                                  result[i].targetNode, result[i].g)]]
    /\ UNCHANGED <<program, query>>

\* analyzeImpact up to the call of findTransitiveCallers
StartImpact(i) ==
    /\ query[i].op = "analyzeImpact"
    /\ result[i].pc = "start"
    /\ LET maps == buildProjectCallMap(program)
       IN  result' = [result EXCEPT ![i] =
              [pc |-> "levels",
               targetLocation |-> findFunction(program,
                                      query[i].functionName)[1],
               maps |-> maps,
               depth |-> 1,
               currentLevel |-> GetOrEmpty(maps.callersMap,
                                           query[i].functionName),
               t |-> [result |-> EmptyMap,
                      visited |-> {query[i].functionName},
                      nextLevel |-> <<>>, iterations |-> 0]]]
    /\ UNCHANGED <<program, query>>

\* one level of findTransitiveCallers, or its return and the start of
\* detectCircularDependencies
StepLevels(i) ==
    /\ result[i].pc = "levels"
    /\ LET task == result[i]
       IN  result' = [result EXCEPT ![i] =
              IF task.depth > query[i].depth
              THEN [pc |-> "cycles",
                    targetLocation |-> task.targetLocation,
                    maps |-> task.maps,
                    levels |-> task.t,
                    startPoints |-> <<query[i].functionName>>
                        \o GetOrEmpty(task.maps.callersMap,
                                      query[i].functionName),
                    k |-> 1,
                    s |-> [cycles |-> <<>>, visited |-> {},
                           invocations |-> 0]]
              ELSE LET done == transitiveLevel(task.maps.callersMap,
                                   task.currentLevel, 1, task.depth,
                                   [task.t EXCEPT !.nextLevel = <<>>])
                   IN  [task EXCEPT !.depth = @ + 1,
                                    !.currentLevel = done.nextLevel,
                                    !.t = done]]
    /\ UNCHANGED <<program, query>>

\* the search from one start point, or the return of
\* detectCircularDependencies and the scoring
StepCycles(i) ==
    /\ result[i].pc = "cycles"
    /\ LET task == result[i]
       IN  result' = [result EXCEPT ![i] =
              IF task.k > Len(task.startPoints)
              THEN [pc |-> "done",
                    out |-> impactResult(query[i].functionName,
                                task.targetLocation, task.maps, task.levels,
                                task.s, query[i].includeComplexity)]
              ELSE [task EXCEPT
                       !.k = @ + 1,
                       !.s = dfs(query[i].functionName,
                                 task.maps.functionCallMap,
                                 task.startPoints[task.k], <<>>,
                                 [@ EXCEPT !.visited = {}])]]
    /\ UNCHANGED <<program, query>>

NextConcurrent ==
    \E i \in 1..2 :
        \/ StartCallGraph(i)
        \/ StepCallees(i)
        \/ FinishCallGraph(i)
        \/ StartImpact(i)
        \/ StepLevels(i)
        \/ StepCycles(i)

SpecConcurrent == InitConcurrent /\ [][NextConcurrent]_vars

----------------------------------------------------------------------------
(* The scoring specification: the scoring functions of the impact analyzer *)
(* applied to arbitrary counts                                             *)

ComplexityRequests ==
    [op : {"calculateComplexity"}, cyclomaticComplexity : 0..MaxComplexity,
     fanIn : 0..MaxCount, fanOut : 0..MaxCount]

RiskScoreRequests ==
    [op : {"calculateRiskScore"}, directCallers : 0..MaxCount,
     totalAffected : 0..MaxCount, isHotspot : BOOLEAN,
     cyclomaticComplexity : 0..MaxComplexity, circularDeps : 0..MaxCycles]

RiskLevelRequests == [op : {"getRiskLevel"}, score : 0..100]

\* the cycles handed to generateSuggestions: the first `cycles` of these
SampleCycles == <<(<<"hub", "hub">>), (<<"hub", "c1", "hub">>)>>

SuggestionRequests ==
    [op : {"generateSuggestions"}, callerCount : 0..MaxSuggested,
     fanOut : 0..MaxSuggested, isHotspot : BOOLEAN,
     cyclomaticComplexity : 0..MaxComplexity,
     cycles : 0..Len(SampleCycles)]

InitScore ==
    /\ program = <<>>
    /\ query \in ComplexityRequests \cup RiskScoreRequests
                    \cup RiskLevelRequests \cup SuggestionRequests
    /\ result = NoResult

CalculateComplexity ==
    /\ query.op = "calculateComplexity"
    /\ result = NoResult
    /\ result' = [kind |-> "complexity",
                  complexity |-> calculateComplexity(query.cyclomaticComplexity,
                                     query.fanIn, query.fanOut)]
    /\ UNCHANGED <<program, query>>

CalculateRiskScore ==
    /\ query.op = "calculateRiskScore"
    /\ result = NoResult
    /\ result' = [kind |-> "score",
                  score |-> calculateRiskScore(query.directCallers,
                                query.totalAffected,
                                [isHotspot |-> query.isHotspot,
                                 cyclomaticComplexity |->
                                     query.cyclomaticComplexity],
                                query.circularDeps)]
    /\ UNCHANGED <<program, query>>

GetRiskLevel ==
    /\ query.op = "getRiskLevel"
    /\ result = NoResult
    /\ result' = [kind |-> "level", level |-> getRiskLevel(query.score)]
    /\ UNCHANGED <<program, query>>

GenerateSuggestions ==
    /\ query.op = "generateSuggestions"
    /\ result = NoResult
    /\ result' = [kind |-> "suggestions",
                  suggestions |->
                      generateSuggestions(HubName, query.callerCount,
                          [isHotspot |-> query.isHotspot,
                           cyclomaticComplexity |-> query.cyclomaticComplexity],
                          SubSeq(SampleCycles, 1, query.cycles),
                          [k \in 1..query.fanOut |-> "d" \o ToString(k)])]
    /\ UNCHANGED <<program, query>>

NextScore ==
    \/ CalculateComplexity
    \/ CalculateRiskScore
    \/ GetRiskLevel
    \/ GenerateSuggestions

SpecScore == InitScore /\ [][NextScore]_vars

----------------------------------------------------------------------------
(* Reference notions the properties are stated with *)

\* the names the first definition of f calls, built-in calls left out
TrackedCallees(prog, f) ==
    LET locations == findFunction(prog, f)
    IN  IF Len(locations) = 0 THEN {}
        ELSE {locations[1].calls[k].calleeName :
                k \in {j \in 1..Len(locations[1].calls) :
                         ~isBuiltInFunction(locations[1].calls[j].calleeName,
                                            locations[1].calls[j].receiver)}}

\* the names reachable from f by a chain of at most d tracked calls
RECURSIVE ReachableWithin(_, _, _)
ReachableWithin(prog, f, d) ==
    IF d = 0 THEN {f}
    ELSE LET near == ReachableWithin(prog, f, d - 1)
         IN  near \cup UNION {TrackedCallees(prog, x) : x \in near}

\* the number of call sites of the project
CallSiteCount(prog) ==
    Cardinality(UNION {{<<i, k>> : k \in 1..Len(prog[i].calls)} :
                          i \in 1..Len(prog)})

\* the callee names of all call sites of the first definition of f
CalledNames(prog, f) ==
    LET locations == findFunction(prog, f)
    IN  IF Len(locations) = 0 THEN <<>>
        ELSE [k \in 1..Len(locations[1].calls) |->
                 locations[1].calls[k].calleeName]

\* the names from which t is reached by a chain of at most k calls of the
\* caller map, t itself included
RECURSIVE CallersWithin(_, _, _)
CallersWithin(callersMap, t, k) ==
    IF k = 0 THEN {t}
    ELSE LET near == CallersWithin(callersMap, t, k - 1)
         IN  near \cup UNION {Range(GetOrEmpty(callersMap, x)) : x \in near}

\* the names held by the levels of a transitive-caller map
LevelNames(levels) == UNION {Range(levels[d]) : d \in DOMAIN levels}

IsGraphQuery == query.op = "analyzeCallGraph" /\ result.kind = "graph"

IsImpactQuery == query.op = "analyzeImpact" /\ result.kind = "impact"

\* the call relation: the pairs <<caller, callee>> of defined functions
\* with a tracked call site of the callee in the caller's first definition
CallRelation(prog) ==
    {pair \in DefinedNames(prog) \X DefinedNames(prog) :
        \E k \in 1..Len(findFunction(prog, pair[1])[1].calls) :
            LET call == findFunction(prog, pair[1])[1].calls[k]
            IN  call.calleeName = pair[2] /\ ~isBuiltIn(call.calleeName)}

\* the simple directed cycles through t, each as the sequence of its
\* distinct functions starting with t
SimpleCyclesThrough(prog, t) ==
    LET names == DefinedNames(prog)
        calls == CallRelation(prog)
    IN  {p \in UNION {[1..k -> names] : k \in 1..Cardinality(names)} :
            /\ p[1] = t
            /\ \A i, j \in 1..Len(p) : i # j => p[i] # p[j]
            /\ \A i \in 1..(Len(p) - 1) : <<p[i], p[i + 1]>> \in calls
            /\ <<p[Len(p)], t>> \in calls}

\* the place of a function in FuncNames
FuncIndex(name) == CHOOSE i \in 1..Len(FuncNames) : FuncNames[i] = name

\* the rule a suggestion comes from, read off its message, and the place
\* of the rule in the order of generation
RuleOf(suggestion) ==
    CASE suggestion.message[1] \in {"callers-plan-testing", "callers-moderate"}
            -> "callers"
      [] suggestion.message[1] = "circular" -> "cycle"
      [] suggestion.message[1] \in {"calls-break-up", "calls-responsibilities"}
            -> "fanOut"
      [] suggestion.message[1] = "hotspot" -> "hotspot"
      [] suggestion.message[1] \in {"complexity-high", "complexity-moderate"}
            -> "complexity"

RuleRank(rule) ==
    CASE rule = "callers" -> 1
      [] rule = "cycle" -> 2
      [] rule = "fanOut" -> 3
      [] rule = "hotspot" -> 4
      [] rule = "complexity" -> 5

\* the severities of the suggestions that come from the rule, in order
SeveritiesOf(suggestions, rule) ==
    LET mine == SelectSeq(suggestions, LAMBDA x : RuleOf(x) = rule)
    IN  [k \in 1..Len(mine) |-> mine[k].severity]

\* the one severity the claimed bands give a count: 4 from 15, 3 from 10,
\* 2 from 5 for callers; 4 from 20, 3 from 15, 2 from 10 for callees
ClaimedBand(count, top, middle, low) ==
    IF count >= top THEN <<4>>
    ELSE IF count >= middle THEN <<3>>
    ELSE IF count >= low THEN <<2>>
    ELSE <<>>

\* the sets of function names of the simple cycles through t
CycleSets(prog, t) == {Range(p) : p \in SimpleCyclesThrough(prog, t)}

----------------------------------------------------------------------------
(* Properties *)

\* C1: depth monotonicity - the graph built for the same target and
\* direction with depth d+1 has at least as many nodes as the one built
\* with depth d, for 1 <= d < 10.
C1_DepthMonotonicity ==
    (IsGraphQuery /\ query.depth < MAX_DEPTH) =>
        Cardinality(DOMAIN analyzeCallGraph(program, query.functionName,
                        query.depth + 1, query.direction).graph.nodes)
            >= Cardinality(DOMAIN result.graph.nodes)

\* C2: completeness within depth - in a callees graph of depth d every
\* function reachable from the target by at most d tracked calls is a node.
C2_CompleteWithinDepth ==
    (IsGraphQuery /\ query.direction = "callees") =>
        ReachableWithin(program, query.functionName, query.depth)
            \subseteq DOMAIN result.graph.nodes

\* C3: termination on cycles - every traversal (callee and caller
\* expansion of buildCallGraph, findTransitiveCallers,
\* detectCircularDependencies) ends after a number of steps bounded by the
\* size of the call relation, whatever the depth in 1..10 and whatever
\* cycles the relation has; the callee graph of a target whose only call
\* is to itself has exactly one node, and that of a, b with the only calls
\* a->b and b->a has exactly the nodes a and b.
C3_TerminationOnCycles ==
    /\ IsGraphQuery =>
        /\ result.graph.work.buildCallees <= 1 + CallSiteCount(program)
        /\ result.graph.work.findCallersRecursive <= 1 + CallSiteCount(program)
        /\ (query.direction = "callees"
                /\ CalledNames(program, query.functionName)
                       = <<query.functionName>>)
             => DOMAIN result.graph.nodes = {query.functionName}
        /\ \A b \in DefinedNames(program) \ {query.functionName} :
             (query.direction = "callees"
                /\ CalledNames(program, query.functionName) = <<b>>
                /\ CalledNames(program, b) = <<query.functionName>>)
             => DOMAIN result.graph.nodes = {query.functionName, b}
    /\ IsImpactQuery =>
        /\ result.work.transitiveLevel <= CallSiteCount(program)
        /\ result.work.dfs
             <= (1 + Len(result.impact.directCallers))
                    * (1 + CallSiteCount(program))

\* C3 witness: mutual recursion a->b, b->a expanded with the largest depth
C3_Witness ==
    /\ IsGraphQuery
    /\ query.direction = "callees"
    /\ query.depth = MAX_DEPTH
    /\ \E b \in DefinedNames(program) \ {query.functionName} :
        /\ CalledNames(program, query.functionName) = <<b>>
        /\ CalledNames(program, b) = <<query.functionName>>
        /\ DOMAIN result.graph.nodes = {query.functionName, b}

\* C4: level k of the transitive callers is exactly the set of functions,
\* other than the target, whose shortest chain of calls to the target has
\* k calls (k in 1..maxDepth); no name is twice in a level or in two
\* levels, and the target is in none.
C4_LevelsAreDistances ==
    IsImpactQuery =>
        LET callersMap == buildProjectCallMap(program).callersMap
            levels == result.impact.transitiveCallers
            t == query.functionName
        IN  /\ DOMAIN levels \subseteq 1..query.depth
            /\ \A k \in 1..query.depth :
                  Range(GetOrEmpty(levels, k))
                      = CallersWithin(callersMap, t, k)
                            \ CallersWithin(callersMap, t, k - 1)
            /\ \A k \in DOMAIN levels :
                  /\ Cardinality(Range(levels[k])) = Len(levels[k])
                  /\ t \notin Range(levels[k])
                  /\ \A j \in DOMAIN levels \ {k} :
                        Range(levels[j]) \cap Range(levels[k]) = {}

\* C4 witness: two direct callers, one of which also calls the other, and
\* a caller at level 2
C4_Witness ==
    /\ IsImpactQuery
    /\ {1, 2} \subseteq DOMAIN result.impact.transitiveCallers
    /\ Len(result.impact.transitiveCallers[1]) >= 2
    /\ \E x \in Range(result.impact.transitiveCallers[1]) :
          \E y \in Range(result.impact.transitiveCallers[1]) \ {x} :
              Includes(GetOrEmpty(buildProjectCallMap(program).callersMap, y), x)

\* C5: totalAffected is the number of distinct names in the union of all
\* levels of transitiveCallers, also when the target calls itself.
C5_TotalAffectedIsLevelUnion ==
    IsImpactQuery =>
        result.impact.totalAffected
            = Cardinality(LevelNames(result.impact.transitiveCallers))

\* C6: every direct caller is counted among the affected functions
\* (totalAffected >= number of direct callers, the transitive term of the
\* score is not negative) and riskScore is in 0..100.
C6_AffectedAndScoreRange ==
    IsImpactQuery =>
        /\ result.impact.totalAffected >= Len(result.impact.directCallers)
        /\ (result.impact.totalAffected - Len(result.impact.directCallers))
               * transitiveWeight >= 0
        /\ result.impact.riskScore \in 0..100

\* C6 witness: a target with a direct caller and further transitive callers
C6_Witness ==
    /\ IsImpactQuery
    /\ Len(result.impact.directCallers) >= 1
    /\ result.impact.totalAffected > Len(result.impact.directCallers)
    /\ result.impact.riskScore > 0

\* C7: calculateRiskScore is min(100, 2*directCallers + (totalAffected -
\* directCallers) + (15 if hotspot) + 10*cycles + floor(complexity/5));
\* one more cycle raises the unclamped sum by exactly 10, and the returned
\* score by exactly 10 while the sum stays at or below 100.
C7_RiskScoreFormula ==
    (query.op = "calculateRiskScore" /\ result.kind = "score") =>
        LET complexity == [isHotspot |-> query.isHotspot,
                           cyclomaticComplexity |-> query.cyclomaticComplexity]
            sum == 2 * query.directCallers
                     + (query.totalAffected - query.directCallers)
                     + (IF query.isHotspot THEN 15 ELSE 0)
                     + 10 * query.circularDeps
                     + (query.cyclomaticComplexity \div 5)
            more == calculateRiskScore(query.directCallers,
                        query.totalAffected, complexity,
                        query.circularDeps + 1)
        IN  /\ result.score = (IF sum < 100 THEN sum ELSE 100)
            /\ riskSum(query.directCallers, query.totalAffected, complexity,
                       query.circularDeps + 1) = sum + 10
            /\ sum + 10 <= 100 => more = result.score + 10

\* C7 witness: a score with a cycle in it that one more cycle still raises
C7_Witness ==
    /\ query.op = "calculateRiskScore"
    /\ result.kind = "score"
    /\ query.circularDeps >= 1
    /\ result.score + 10 <= 100

\* C8: riskLevel depends on the score alone: low for 0..9, medium for
\* 10..29, high for 30..59, critical for 60..100; the level never
\* decreases when the score increases.
C8_RiskLevelBands ==
    (query.op = "getRiskLevel" /\ result.kind = "level") =>
        LET rank(level) == CASE level = "low" -> 0
                             [] level = "medium" -> 1
                             [] level = "high" -> 2
                             [] level = "critical" -> 3
        IN  /\ result.level \in {"low", "medium", "high", "critical"}
            /\ result.level = "low" <=> query.score \in 0..9
            /\ result.level = "medium" <=> query.score \in 10..29
            /\ result.level = "high" <=> query.score \in 30..59
            /\ result.level = "critical" <=> query.score \in 60..100
            /\ \A higher \in query.score..100 :
                  rank(getRiskLevel(higher)) >= rank(result.level)

\* C8 witness: the first score of the critical band
C8_Witness ==
    /\ query.op = "getRiskLevel"
    /\ query.score = 60
    /\ result.kind = "level"
    /\ result.level = "critical"

\* C9: in every ComplexityMetrics produced (the complexity of analyzeImpact
\* with or without includeComplexity, the complexity of the JSON export)
\* isHotspot is true exactly when fanIn >= 5 and fanOut >= 5.
C9_HotspotIffBothThresholds ==
    /\ IsImpactQuery =>
          (result.impact.complexity.isHotspot
              <=> (result.impact.complexity.fanIn >= 5
                      /\ result.impact.complexity.fanOut >= 5))
    /\ IsGraphQuery =>
          (exportComplexity(result.graph).isHotspot
              <=> (exportComplexity(result.graph).fanIn >= 5
                      /\ exportComplexity(result.graph).fanOut >= 5))

\* C10: hotspotScore is min(100, round((3*fanIn + 2*fanOut + 2*complexity)
\* * (1.5 if hotspot else 1))) with halves rounded up: an integer in 0..100.
C10_HotspotScoreFormula ==
    (query.op = "calculateComplexity" /\ result.kind = "complexity") =>
        LET weighted == 3 * query.fanIn + 2 * query.fanOut
                            + 2 * query.cyclomaticComplexity
            hot == query.fanIn >= 5 /\ query.fanOut >= 5
            \* 1.5 * weighted is a whole number or a whole number and a half
            rounded == IF ~hot THEN weighted
                       ELSE IF weighted % 2 = 0 THEN (3 * weighted) \div 2
                       ELSE (3 * weighted + 1) \div 2
        IN  /\ result.complexity.hotspotScore
                  = (IF rounded < 100 THEN rounded ELSE 100)
            /\ result.complexity.hotspotScore \in 0..100

\* C10 witness: a hotspot whose weighted sum times 1.5 ends in a half
C10_Witness ==
    /\ query.op = "calculateComplexity"
    /\ result.kind = "complexity"
    /\ result.complexity.isHotspot
    /\ (3 * query.fanIn + 2 * query.fanOut + 2 * query.cyclomaticComplexity) % 2 = 1
    /\ result.complexity.hotspotScore < 100

\* C11: cycle completeness - for every simple directed cycle of the call
\* relation that contains the target, the reported list holds a cycle with
\* the same set of function names.
C11_CycleCompleteness ==
    IsImpactQuery =>
        \A names \in CycleSets(program, query.functionName) :
            \E i \in 1..Len(result.impact.circularDependencies) :
                Range(result.impact.circularDependencies[i]) = names

\* C12: circularDependencies is non-empty exactly when the target lies on
\* a directed cycle of the call relation; a target that calls itself has
\* the cycle [A, A] in the list.
C12_CyclesIffTargetOnCycle ==
    IsImpactQuery =>
        LET t == query.functionName
            cycles == result.impact.circularDependencies
        IN  /\ Len(cycles) > 0 <=> CycleSets(program, t) # {}
            /\ <<t, t>> \in CallRelation(program) => Includes(cycles, <<t, t>>)

\* C12 witness: a target that calls itself and lies on a longer cycle too
C12_Witness ==
    /\ IsImpactQuery
    /\ Includes(result.impact.circularDependencies,
                <<query.functionName, query.functionName>>)
    /\ \E names \in CycleSets(program, query.functionName) :
          Cardinality(names) >= 3
    /\ Len(result.impact.circularDependencies) >= 2

\* C13: cycle deduplication - no two reported cycles have the same set of
\* function names; mutual recursion a->b, b->a with target a reports
\* exactly one cycle, and it contains a and b.
C13_CycleDeduplication ==
    IsImpactQuery =>
        LET t == query.functionName
            cycles == result.impact.circularDependencies
        IN  /\ \A i, j \in 1..Len(cycles) :
                  i # j => Range(cycles[i]) # Range(cycles[j])
            /\ \A b \in DefinedNames(program) \ {t} :
                  (CalledNames(program, t) = <<b>>
                      /\ CalledNames(program, b) = <<t>>)
                  => (Len(cycles) = 1 /\ Range(cycles[1]) = {t, b})

\* C13 witness: mutual recursion, where the search from the caller finds
\* the rotation of the cycle already found from the target
C13_Witness ==
    /\ IsImpactQuery
    /\ \E b \in DefinedNames(program) \ {query.functionName} :
          /\ CalledNames(program, query.functionName) = <<b>>
          /\ CalledNames(program, b) = <<query.functionName>>
          /\ result.impact.directCallers = <<b>>
          /\ result.impact.circularDependencies
                = <<(<<query.functionName, b, query.functionName>>)>>

\* C14: suggestion bands of generateSuggestions - a caller count >= 15
\* yields one caller suggestion of severity 4, 10..14 severity 3, 5..9
\* severity 2, < 5 none; a fan-out >= 20 yields one fan-out suggestion of
\* severity 4, 15..19 severity 3, 10..14 severity 2, < 10 none.
C14_SuggestionBands ==
    (query.op = "generateSuggestions" /\ result.kind = "suggestions") =>
        /\ SeveritiesOf(result.suggestions, "callers")
              = ClaimedBand(query.callerCount, 15, 10, 5)
        /\ SeveritiesOf(result.suggestions, "fanOut")
              = ClaimedBand(query.fanOut, 20, 15, 10)

\* C15: the suggestions are sorted by severity, highest first, and
\* suggestions of equal severity keep the order of generation: caller
\* rule, cycle warnings in cycle order, fan-out rule, hotspot rule,
\* complexity rule.
C15_SortedBySeverityStable ==
    (query.op = "generateSuggestions" /\ result.kind = "suggestions") =>
        LET list == result.suggestions
            cycleIndex(x) == CHOOSE k \in 1..Len(SampleCycles) :
                                SampleCycles[k] = x.message[2]
        IN  \A i, j \in 1..Len(list) :
                i < j =>
                    /\ list[i].severity >= list[j].severity
                    /\ list[i].severity = list[j].severity =>
                          /\ RuleRank(RuleOf(list[i]))
                                <= RuleRank(RuleOf(list[j]))
                          /\ (RuleOf(list[i]) = "cycle"
                                 /\ RuleOf(list[j]) = "cycle")
                              => cycleIndex(list[i]) < cycleIndex(list[j])

\* C15 witness: all five rules fire, two cycles among them; the caller
\* suggestion was generated first and stands after the severity-5 ones
C15_Witness ==
    /\ query.op = "generateSuggestions"
    /\ result.kind = "suggestions"
    /\ Len(result.suggestions) = 6
    /\ [k \in 1..6 |-> RuleOf(result.suggestions[k])]
          = <<"cycle", "cycle", "hotspot", "callers", "fanOut", "complexity">>

\* C16: severity-5 suggestions come only from cycles and the hotspot rule:
\* their number is the number of detected cycles, plus one when isHotspot
\* holds; with 5 callers and 5 callees a severity-5 suggestion whose
\* message names the hotspot is present.
C16_SeverityFiveSources ==
    IsImpactQuery =>
        LET list == result.impact.suggestions
            fives == SelectSeq(list, LAMBDA x : x.severity = 5)
        IN  /\ \A k \in 1..Len(fives) : RuleOf(fives[k]) \in {"cycle", "hotspot"}
            /\ Len(fives)
                  = Len(result.impact.circularDependencies)
                      + (IF result.impact.complexity.isHotspot THEN 1 ELSE 0)
            /\ (Len(result.impact.directCallers) = 5
                   /\ result.impact.complexity.fanOut = 5)
               => \E k \in 1..Len(list) :
                     RuleOf(list[k]) = "hotspot" /\ list[k].severity = 5

\* C17: direct-callee containment - in a graph built with direction
\* callees or both, every name in callees is the `to` of an edge whose
\* `from` is the target.
C17_DirectCalleeContainment ==
    (IsGraphQuery /\ query.direction \in {"callees", "both"}) =>
        \A k \in 1..Len(result.graph.callees) :
            \E i \in 1..Len(result.graph.edges) :
                /\ result.graph.edges[i].from = query.functionName
                /\ result.graph.edges[i].to = result.graph.callees[k]

\* C17 witness: a graph built in both directions with callees, one of them
\* without a definition, and with callers
C17_Witness ==
    /\ IsGraphQuery
    /\ query.direction = "both"
    /\ Len(result.graph.callees) >= 2
    /\ Includes(result.graph.callees, "helper")
    /\ Len(result.graph.callers) >= 1

\* C18: linear chain - for f0->f1->...->fn with no other calls, target f0,
\* direction callees and depth d, the graph has exactly the nodes
\* f0..f(min(d,n)), exactly the edges (f(i), f(i+1)) for i < min(d,n) in
\* that order, and callees = [f1].
C18_LinearChain ==
    (/\ IsGraphQuery
     /\ query.direction = "callees"
     /\ \E chain \in 0..(NumFuncs - 1) : program = ChainProject(chain, <<>>)
     /\ Len(CalledNames(program, query.functionName)) = 1)
    =>
        LET first == FuncIndex(query.functionName)
            chain == CHOOSE c \in 0..(NumFuncs - 1) :
                        program = ChainProject(c, <<>>)
            n == chain + 1 - first
            reach == Min(query.depth, n)
        IN  /\ DOMAIN result.graph.nodes
                  = {FuncNames[i] : i \in first..(first + reach)}
            /\ [k \in 1..Len(result.graph.edges) |->
                    <<result.graph.edges[k].from, result.graph.edges[k].to>>]
                  = [k \in 1..reach |->
                        <<FuncNames[first + k - 1], FuncNames[first + k]>>]
            /\ result.graph.callees = <<FuncNames[first + 1]>>

\* C18 witness: a chain longer than the depth, cut after depth 2
C18_Witness ==
    /\ IsGraphQuery
    /\ query.direction = "callees"
    /\ query.depth = 2
    /\ query.functionName = "f1"
    /\ program = ChainProject(NumFuncs - 1, <<>>)
    /\ DOMAIN result.graph.nodes = {"f1", "f2", "f3"}
    /\ Len(result.graph.edges) = 2

\* C19: the fan-out reported for a target (complexity.fanOut of
\* analyzeImpact, and complexity.fanOut of the JSON export) is the number
\* of distinct functions the target calls directly, however many call
\* sites each callee has.
C19_FanOutCountsDistinctCallees ==
    /\ IsImpactQuery =>
          result.impact.complexity.fanOut
              = Cardinality({name \in Range(CalledNames(program,
                                                        query.functionName)) :
                               ~isBuiltIn(name)})
    /\ (IsGraphQuery /\ query.direction \in {"callees", "both"}) =>
          exportComplexity(result.graph).fanOut
              = Cardinality(TrackedCallees(program, query.functionName))

\* C20: two edges of a graph with the same from and the same to carry
\* different locations, for every arrangement of the call sites.
C20_ParallelEdgesDifferInLocation ==
    IsGraphQuery =>
        \A i, j \in 1..Len(result.graph.edges) :
            (/\ i # j
             /\ result.graph.edges[i].from = result.graph.edges[j].from
             /\ result.graph.edges[i].to = result.graph.edges[j].to)
            => result.graph.edges[i].location # result.graph.edges[j].location

\* C27: depth bound - in a callees-direction graph built with depth d no
\* function's call sites are scanned at depth >= d, every node is reachable
\* from the target by a chain of at most d calls and the `from` of every
\* edge by a chain of at most d - 1 calls.
C27_DepthBound ==
    (IsGraphQuery /\ query.direction = "callees") =>
        /\ \A scan \in result.graph.work.scanned : scan[2] < query.depth
        /\ DOMAIN result.graph.nodes
              \subseteq ReachableWithin(program, query.functionName, query.depth)
        /\ \A k \in 1..Len(result.graph.edges) :
              result.graph.edges[k].from
                  \in ReachableWithin(program, query.functionName,
                                      query.depth - 1)

\* C27 witness: a chain of six functions cut by depth 3, the deepest scan
\* made at depth 2 and f5 left out
C27_Witness ==
    /\ IsGraphQuery
    /\ query.direction = "callees"
    /\ query.depth = 3
    /\ query.functionName = "f1"
    /\ program = ChainProject(NumFuncs - 1, <<>>)
    /\ <<"f3", 2>> \in result.graph.work.scanned
    /\ "f4" \in DOMAIN result.graph.nodes
    /\ "f5" \notin DOMAIN result.graph.nodes

\* the edges as <<from, to>> pairs
EdgePairs(edges) == [k \in 1..Len(edges) |-> <<edges[k].from, edges[k].to>>]

\* some definition of caller has a call site of callee
HasCallSite(prog, caller, callee) ==
    \E i \in 1..Len(prog) :
        /\ prog[i].name = caller
        /\ \E k \in 1..Len(prog[i].calls) : prog[i].calls[k].calleeName = callee

\* the edges the callee pass alone records for the query
CalleePassEdges ==
    analyzeCallGraph(program, query.functionName, query.depth,
                     "callees").graph.edges

\* C28: the caller pass never inserts an edge whose (from, to) pair is
\* already in the edge list and orients every edge caller -> callee: a
\* callers-direction graph has at most one edge per ordered pair, and with
\* direction both the caller pass adds no second edge for a pair the callee
\* pass already recorded.
C28_CallerPassEdgesUnique ==
    /\ (IsGraphQuery /\ query.direction = "callers") =>
          LET pairs == EdgePairs(result.graph.edges)
          IN  /\ \A i, j \in 1..Len(pairs) : i # j => pairs[i] # pairs[j]
              /\ \A i \in 1..Len(pairs) :
                    HasCallSite(program, pairs[i][1], pairs[i][2])
    /\ (IsGraphQuery /\ query.direction = "both") =>
          LET pairs == EdgePairs(result.graph.edges)
              n == Len(CalleePassEdges)
          IN  /\ n <= Len(pairs)
              /\ SubSeq(result.graph.edges, 1, n) = CalleePassEdges
              /\ \A k \in (n + 1)..Len(pairs) :
                    /\ \A i \in 1..(k - 1) : pairs[i] # pairs[k]
                    /\ HasCallSite(program, pairs[k][1], pairs[k][2])

\* C28 witness: with direction both, the callee pass has recorded the call
\* of the target by one of its direct callers, and the caller pass has
\* added the edge of another caller
C28_Witness ==
    /\ IsGraphQuery
    /\ query.direction = "both"
    /\ \E k \in 1..Len(result.graph.callers) :
          <<result.graph.callers[k], query.functionName>>
              \in Range(EdgePairs(CalleePassEdges))
    /\ Len(result.graph.edges) > Len(CalleePassEdges)

\* C29: graph well-formedness - in every CallGraph returned by
\* buildCallGraph, for any direction and depth, the target name is a key of
\* nodes and both endpoints of every edge are keys of nodes.
C29_GraphWellFormed ==
    IsGraphQuery =>
        /\ result.graph.targetNode.name = query.functionName
        /\ query.functionName \in DOMAIN result.graph.nodes
        /\ \A k \in 1..Len(result.graph.edges) :
              /\ result.graph.edges[k].from \in DOMAIN result.graph.nodes
              /\ result.graph.edges[k].to \in DOMAIN result.graph.nodes

\* C29 witness: a callers-direction graph whose edges all end in functions
\* that only the caller pass met, the target among them
C29_Witness ==
    /\ IsGraphQuery
    /\ query.direction = "callers"
    /\ query.depth = MAX_DEPTH
    /\ Len(result.graph.edges) >= 3
    /\ Cardinality(DOMAIN result.graph.nodes) >= 3

\* the entries of a level map with keys up to d
LevelsUpTo(levels, d) == [k \in {j \in DOMAIN levels : j <= d} |-> levels[k]]

\* C30: transitive caller levels are stable under depth - for a fixed target
\* and caller map, the levels computed by findTransitiveCallers with
\* maxDepth = d are exactly levels 1..d of those computed with
\* maxDepth = d + 1, and the non-empty levels are a contiguous run 1..m.
C30_LevelsStableUnderDepth ==
    IsImpactQuery =>
        LET callersMap == buildProjectCallMap(program).callersMap
            levelsAt(d) == findTransitiveCallers(query.functionName,
                                                 callersMap, d)
        IN  /\ result.impact.transitiveCallers = levelsAt(query.depth)
            /\ \A d \in MIN_DEPTH..(MAX_DEPTH - 1) :
                  /\ levelsAt(d) = LevelsUpTo(levelsAt(d + 1), d)
                  /\ \E m \in 0..d :
                        /\ DOMAIN levelsAt(d) = 1..m
                        /\ \A k \in 1..m : Len(levelsAt(d)[k]) >= 1

\* C30 witness: callers on three levels, the query made with depth 3, so
\* that depth 2 cuts the third level off and depth 4 adds nothing
C30_Witness ==
    /\ IsImpactQuery
    /\ query.depth = impactDefaultDepth
    /\ DOMAIN result.impact.transitiveCallers = 1..3
    /\ DOMAIN findTransitiveCallers(query.functionName,
                  buildProjectCallMap(program).callersMap, 2) = 1..2
    /\ findTransitiveCallers(query.functionName,
           buildProjectCallMap(program).callersMap, 4)
          = result.impact.transitiveCallers

\* cycle is a simple cycle through t all of whose steps are in calls
IsSimpleCycleThrough(cycle, t, calls) ==
    /\ Len(cycle) >= 2
    /\ cycle[1] = cycle[Len(cycle)]
    /\ \A i, j \in 1..(Len(cycle) - 1) : i # j => cycle[i] # cycle[j]
    /\ \A i \in 1..(Len(cycle) - 1) : <<cycle[i], cycle[i + 1]>> \in calls
    /\ Includes(cycle, t)

\* C26: every cycle in the reported list is a genuine simple cycle through
\* the target - first and last names equal, the other names pairwise
\* distinct, every consecutive pair a call of the forward map (of the edge
\* list, for the exporter), the target one of its names; cycles elsewhere in
\* the project are never reported.
C26_ReportedCyclesGenuine ==
    /\ IsImpactQuery =>
          \A k \in 1..Len(result.impact.circularDependencies) :
              IsSimpleCycleThrough(result.impact.circularDependencies[k],
                  query.functionName, CallRelation(program))
    /\ IsGraphQuery =>
          LET cycles == exportCircularDependencies(result.graph)
          IN  \A k \in 1..Len(cycles) :
                  IsSimpleCycleThrough(cycles[k], query.functionName,
                      Range(EdgePairs(result.graph.edges)))

\* C26 witness: a cycle of three functions through the target is reported
\* and the self-call of another function, a cycle elsewhere, is not
C26_Witness ==
    /\ IsImpactQuery
    /\ \E k \in 1..Len(result.impact.circularDependencies) :
          Len(result.impact.circularDependencies[k]) = 4
    /\ \E n \in DefinedNames(program) :
          /\ n # query.functionName
          /\ <<n, n>> \in CallRelation(program)
          /\ \A k \in 1..Len(result.impact.circularDependencies) :
                ~Includes(result.impact.circularDependencies[k], n)

\* the project with only the first-found definition of every name
FirstDefinitions(prog) ==
    LET firsts == SelectSeq([i \in 1..Len(prog) |-> i],
                     LAMBDA i : \A j \in 1..(i - 1) : prog[j].name # prog[i].name)
    IN  [k \in 1..Len(firsts) |-> prog[firsts[k]]]

\* C21: when a function name has several definitions, no error is raised
\* and the first-found definition is the one used wherever the name is
\* resolved in a query - as the target (location, complexity), as the callee
\* to expand, and as the entry of the project-wide call map that supplies
\* the name's callees, callers and cycles: the query answers as it does on
\* the project without the later definitions.
C21_FirstDefinitionUsed ==
    (/\ result # NoResult
     /\ query.projectRoot = ProjectRoot
     /\ query.functionName \in DefinedNames(program))
    =>
        /\ result.kind # "error"
        /\ IsImpactQuery =>
              result.impact
                  = analyzeImpact(FirstDefinitions(program),
                        query.functionName, query.depth,
                        query.includeComplexity).impact
        /\ IsGraphQuery =>
              LET first == analyzeCallGraph(FirstDefinitions(program),
                               query.functionName, query.depth,
                               query.direction).graph
              IN  /\ result.graph.targetNode = first.targetNode
                  /\ result.graph.nodes = first.nodes
                  /\ result.graph.edges = first.edges
                  /\ result.graph.callers = first.callers
                  /\ result.graph.callees = first.callees

\* the fields of a complete call graph and of a complete impact result
GraphFields == {"targetNode", "nodes", "edges", "callers", "callees", "work"}

ImpactFields ==
    {"functionName", "location", "directCallers", "transitiveCallers",
     "totalAffected", "riskScore", "riskLevel", "complexity",
     "circularDependencies", "suggestions"}

\* C22: a query either returns a complete result or fails with an error and
\* returns nothing - analyzeCallGraph and analyzeImpact fail with a
\* no-source-files error when the project has no source files, otherwise
\* with a function-not-found error when the target name has no definition,
\* and in both cases no graph construction or scoring step is run.
C22_CompleteResultOrError ==
    result # NoResult =>
        IF query.projectRoot = EmptyRoot
        THEN /\ DOMAIN result = {"kind", "error", "message"}
             /\ result.kind = "error"
             /\ result.error = "NO_SOURCE_FILES"
        ELSE IF query.functionName \notin DefinedNames(program)
        THEN /\ DOMAIN result = {"kind", "error", "message"}
             /\ result.kind = "error"
             /\ result.error = "FUNCTION_NOT_FOUND"
        ELSE IF query.op = "analyzeCallGraph"
        THEN /\ DOMAIN result = {"kind", "graph"}
             /\ result.kind = "graph"
             /\ DOMAIN result.graph = GraphFields
        ELSE /\ DOMAIN result = {"kind", "impact", "work"}
             /\ result.kind = "impact"
             /\ DOMAIN result.impact = ImpactFields

\* C22 witness: a call-graph query for a name on a root without source
\* files has failed with the no-source-files error
C22_Witness ==
    /\ query.op = "analyzeCallGraph"
    /\ query.projectRoot = EmptyRoot
    /\ query.functionName = "helper"
    /\ result.kind = "error"
    /\ result.error = "NO_SOURCE_FILES"
    /\ result.message = <<"No source files found in ", EmptyRoot>>

\* the tool called, its arguments, and the analyzer invocations made
ToolOf == query.request.params.name

ArgsOf == query.request.params.arguments

\* floor(num/den) clamped to 1..10, and the clamp of the infinities
ClampedFloor(x) ==
    IF x.kind = "Infinity" THEN 10
    ELSE IF x.kind = "-Infinity" THEN 1
    ELSE IF x.num < x.den THEN 1
    ELSE IF x.num >= 10 * x.den THEN 10
    ELSE CHOOSE f \in 1..9 : f * x.den <= x.num /\ x.num < (f + 1) * x.den

\* C24: for every depth argument a tool call can carry (missing, non-number,
\* NaN, fractional, zero, negative, arbitrarily large), the depth handed to
\* analyzeCallGraph or analyzeImpact is an integer in 1..10 - the floor of
\* the value clamped to [1,10], or the tool default (2; 3 for
\* analyze_impact) when the value is missing or not a number.
C24_DepthHandedIsClamped ==
    (/\ result # NoResult
     /\ Len(result.invoked) = 1
     /\ result.invoked[1].analyzer \in {"analyzeCallGraph", "analyzeImpact"})
    =>
        LET handed == result.invoked[1].options.depth
            given == ArgsOf.depth
        IN  /\ handed \in 1..10
            /\ handed = IF given.type # "number" \/ given.kind = "NaN"
                        THEN IF ToolOf = "analyze_impact" THEN 3 ELSE 2
                        ELSE ClampedFloor(given)

\* C24 witness: analyze_function_calls called with depth 2.5 has handed
\* depth 2 to analyzeCallGraph and returned the graph
C24_Witness ==
    /\ result # NoResult
    /\ ToolOf = "analyze_function_calls"
    /\ ArgsOf.type = "object"
    /\ ArgsOf.depth = Finite(5, 2)
    /\ Len(result.invoked) = 1
    /\ result.invoked[1].options.depth = 2
    /\ DOMAIN result.response = {"content"}

\* the arguments pass the validation of the tool called
ValidPathArgument(v) ==
    v.type = "string" /\ v.value \in {ProjectRoot, EmptyRoot, DottedRoot, ProjectFile}

ValidationPasses ==
    /\ ArgsOf.type = "object"
    /\ ArgsOf.functionName.type = "string"
    /\ ArgsOf.functionName.value # ""
    /\ ValidPathArgument(ArgsOf.projectRoot)
    /\ ToolOf \in {"analyze_function_calls", "analyze_impact"} =>
          \/ ArgsOf.filePath \in {Undefined, Str("")}
          \/ ValidPathArgument(ArgsOf.filePath)
    /\ ToolOf = "visualize_callgraph" =>
          ArgsOf.format \in {Str("mermaid"), Str("ascii"), Str("json")}

\* the analyzer called throws of its own: no source files under the root,
\* or no definition of the name
AnalyzerThrows ==
    /\ ToolOf # "find_function"
    /\ \/ ArgsOf.projectRoot.value = EmptyRoot
       \/ ArgsOf.functionName.value \notin DefinedNames(program)

IsErrorResponse(r) ==
    /\ DOMAIN r = {"content", "isError"}
    /\ r.isError = TRUE
    /\ Len(r.content) = 1
    /\ r.content[1].type = "text"
    /\ r.content[1].text[1] = "Error: "

\* C23: handleToolCall never rejects - an unknown tool name, a failed input
\* validation (functionName, projectRoot, filePath, format), or any Error or
\* non-Error value thrown by an analyzer yields a result with isError = true
\* and text "Error: <message>", and the analyzer is not invoked when
\* validation fails; a successful call yields a result without isError.
C23_ToolCallNeverRejects ==
    result # NoResult =>
        LET r == result.response
        IN  IF ToolOf \notin ToolNames
            THEN /\ IsErrorResponse(r)
                 /\ r.content[1].text = <<"Error: ", "Unknown tool: ", ToolOf>>
                 /\ result.invoked = <<>>
            ELSE IF ~ValidationPasses
            THEN /\ IsErrorResponse(r)
                 /\ Len(r.content[1].text) >= 2
                 /\ result.invoked = <<>>
            ELSE /\ Len(result.invoked) = 1
                 /\ IF query.fault.type = "Error"
                    THEN /\ IsErrorResponse(r)
                         /\ r.content[1].text
                               = <<"Error: ">> \o query.fault.message
                    ELSE IF query.fault.type = "string"
                    THEN /\ IsErrorResponse(r)
                         /\ r.content[1].text
                               = <<"Error: ", query.fault.value>>
                    ELSE IF AnalyzerThrows
                    THEN /\ IsErrorResponse(r)
                         /\ Len(r.content[1].text) >= 3
                    ELSE /\ DOMAIN r = {"content"}
                         /\ Len(r.content) = 1
                         /\ r.content[1].type = "text"

\* C23 witness: the analyzer has thrown a string, no Error, and the call
\* has answered with the error result made of it
C23_Witness ==
    /\ result # NoResult
    /\ ToolOf = "analyze_function_calls"
    /\ ValidationPasses
    /\ query.fault = Str("string error")
    /\ Len(result.invoked) = 1
    /\ result.response.isError = TRUE
    /\ result.response.content[1].text = <<"Error: ", "string error">>

\* the result of query i when it runs alone
Alone(i) ==
    IF query[i].op = "analyzeCallGraph"
    THEN analyzeTypeScriptCallGraph(program, query[i])
    ELSE analyzeImpactOptions(program, query[i])

\* C25: concurrent queries do not interfere - when the steps of two queries
\* (buildCallGraph or analyzeImpact, on the same or different targets)
\* interleave in any order, each returns the same result as when it runs
\* alone, its node, edge, visited, path and call-map state being its own.
C25_QueriesDoNotInterfere ==
    \A i \in 1..2 : result[i].pc = "done" => result[i].out = Alone(i)

\* C25 witness: the first query has returned its graph while the second,
\* on the same target, was in the middle of its callee pass
C25_Witness ==
    /\ result[1].pc = "done"
    /\ result[1].out.kind = "graph"
    /\ Len(result[1].out.graph.edges) >= 2
    /\ result[2].pc = "callees"
    /\ query[2].functionName = query[1].functionName
    /\ Len(result[2].g.stack) >= 1
    /\ Len(result[2].g.edges) >= 1

====
